---- MODULE Spec2Model ----
(***************************************************************************)
(* Model of the SPA03 application shell (src/src/spa03/spa03.js): the      *)
(* hash router, the content-frame loader with its two timers, and the      *)
(* mobile sidebar.  Handlers run to completion, one per step.              *)
(*                                                                         *)
(* Time is discrete.  A pending timer carries the number of ticks left     *)
(* before it is due; Tick advances time only while no timer is due, and    *)
(* due timers run in creation order, as setTimeout orders them.  Other     *)
(* events (frame signals, clicks, hash changes) may be handled while a     *)
(* timer is due.                                                           *)
(***************************************************************************)
EXTENDS Naturals, Integers, Sequences, FiniteSets, TLC

(***************************************************************************)
(* Bounds of the model.                                                    *)
(***************************************************************************)
\* longest configured delay (loadingDelay, iframeTimeout), in ticks
MaxDelay == 2
\* number of user requests (nav clicks, typed hashes, retries) in a run
MaxRequests == 1
\* number of frame signals queued and not yet handled
MaxQueue == 2
\* calls of Utils.storage made in a run of the Preference Store on its own
MaxStoreOps == 2

(***************************************************************************)
(* Static content: spa03.json as read by loadMetadata.                     *)
(***************************************************************************)
\* state.currentSpa = null, an absent preference, an idle frame
Null == "<null>"

\* content.navigation: id -> {path, title}, the entries of state.config.spaRoutes
Navigation ==
    [spa01 |-> [path |-> "../spa01/spa01.html", title |-> "Hello World"],
     spa02 |-> [path |-> "../spa02/spa02.html", title |-> "Multi-Language"]]

RouteIds == DOMAIN Navigation

\* settings.defaultSpa
DefaultSpa == "spa01"

\* content.sidebar.title
SidebarTitle == "Sample Project"

\* settings.mobileBreakpoint and the viewport widths tried, in model units
MobileBreakpoint == 2
Widths == {1, 2, 3}

\* spaRoutes is created as the object literal {}: besides its own keys, a
\* lookup by name finds what Object.prototype provides
ObjectPrototypeKeys == {"constructor"}

\* ids that name nothing at all
UnknownIds == {"bogus"}

\* every id a URL hash or a stored preference may carry
AllIds == RouteIds \cup ObjectPrototypeKeys \cup UnknownIds
Hashes == AllIds \cup {""}

\* what an earlier session may have left as lastVisitedSpa
SavedIds == {"spa02", "bogus"}

\* A text is a sequence of tokens: <<"lit", s>> is the literal s and
\* <<"key", k>> is the placeholder {k}.
Lit(s) == <<"lit", s>>
Key(k) == <<"key", k>>

\* content.error.messages
Messages ==
    [unknown    |-> <<Lit("Unknown application: "), Key("app")>>,
     timeout    |-> <<Lit("Loading timeout")>>,
     notFound   |-> <<Lit("Application not found")>>,
     loadFailed |-> <<Lit("Failed to load")>>]

NoMessage == << >>

\* Utils.format.template: every {key} with a value is replaced by the value,
\* every other token is kept
template(tpl, values) ==
    [i \in 1..Len(tpl) |->
        IF tpl[i][1] = "key" /\ tpl[i][2] \in DOMAIN values
        THEN Lit(values[tpl[i][2]])
        ELSE tpl[i]]

\* state.config.spaRoutes[spaId]: own entry, inherited property, or undefined
Undefined == [path |-> "undefined", title |-> ""]

spaRoutes(spaId) ==
    IF spaId \in RouteIds THEN Navigation[spaId]
    ELSE Undefined

\* the truth value of state.config.spaRoutes[spaId] in loadSpa's validation
RouteFound(spaId) == spaId \in RouteIds \/ spaId \in ObjectPrototypeKeys

VARIABLES
    state,        \* the shell's state object
    config,       \* state.config: loadingDelay, iframeTimeout
    elements,     \* what the DOM shows: panels, frame src, active link, title
    innerWidth,   \* window.innerWidth
    hash,         \* window.location.hash without the leading '#'
    hashEvents,   \* hashchange events queued, each with the hash it was raised for
    storage,      \* localStorage item spa03.lastVisitedSpa
    timers,       \* pending setTimeout timers
    frameLoading, \* TRUE while the content frame is fetching its src
    frameEvents,  \* load/error events of the content frame, queued
    resize,       \* the debounced resize listener: its timer handle
    cycler,       \* the SPA02 page: its state object, controls and timer
    build,        \* a run of the build script: its position, output and log
    pc,           \* "init" before initializeApp has run, then "running"
    requests,     \* user requests still to come
    lastOp,       \* history: the handler that ran last and its argument
    nav           \* history: how the latest accepted navigation stands

vars == <<state, config, build, elements, innerWidth, hash, hashEvents, storage,
          timers, frameLoading, frameEvents, resize, cycler, pc, requests,
          lastOp, nav>>


(***************************************************************************)
(* Preference Store: Utils.storage over localStorage.                      *)
(***************************************************************************)
NAMESPACE == "spa03"

\* a value that is not a string: undefined and NaN, as Null stands for null
undefined == "<undefined>"
NaN == "<NaN>"

\* faulty variant of finalKey: the namespace is dropped
finalKey_bare(key, namespace) == key

\* `${namespace}.${key}`, or the bare key when the namespace is falsy
finalKey(key, namespace) ==
    IF namespace \in {Null, ""} THEN key ELSE namespace \o "." \o key

\* what localStorage.getItem returns for a key never set
NoItem == << >>

\* an item of a localStorage whose every access throws
Throws == <<"throws">>

\* the namespace of the SPA02 page (NAMESPACE in spa02.js)
NAMESPACE02 == "spa02"

\* the items of localStorage the two pages use
StorageKeys ==
    {finalKey("lastVisitedSpa", NAMESPACE),
     finalKey("selectedLanguage", NAMESPACE02),
     finalKey("cycleSpeed", NAMESPACE02)}

\* localStorage with nothing in it
EmptyStorage == [k \in StorageKeys |-> NoItem]

\* localStorage when the browser denies it: getItem and setItem throw
BrokenStorage == [k \in StorageKeys |-> Throws]

storageFails(store) == \E k \in DOMAIN store : store[k] = Throws

\* JSON.stringify(value) as setItem stores it: the JSON text of the value,
\* "null" for NaN, and the text "undefined", which is not JSON, for undefined
stringify(value) ==
    CASE value = undefined -> <<"text", "undefined">>
      [] value = NaN -> <<"json", Null>>
      [] OTHER -> <<"json", value>>

\* JSON.parse(item) throws on text that is not JSON
parseThrows(item) == item[1] # "json"
parse(item) == item[2]

\* localStorage.getItem
getItem(store, key) == IF key \in DOMAIN store THEN store[key] ELSE NoItem

\* faulty variant of storageSet: the item is written although setItem threw
storageSet_unguarded(store, key, value, namespace) ==
    [k \in DOMAIN store \cup {finalKey(key, namespace)} |->
        IF k = finalKey(key, namespace) THEN stringify(value) ELSE store[k]]

\* Utils.storage.set(key, value, namespace): the store it leaves
storageSet(store, key, value, namespace) ==
    IF storageFails(store) THEN store
    ELSE [k \in DOMAIN store \cup {finalKey(key, namespace)} |->
             IF k = finalKey(key, namespace) THEN stringify(value)
             ELSE store[k]]

\* Utils.storage.set(key, value, namespace): the status it returns
storageSetStatus(store, key, value, namespace) == ~storageFails(store)

\* Utils.storage.get(key, defaultValue, namespace)
storageGet(store, key, defaultValue, namespace) ==
    LET item == getItem(store, finalKey(key, namespace))
    IN IF storageFails(store) \/ item = NoItem THEN defaultValue
       ELSE IF parseThrows(item) THEN defaultValue
       ELSE parse(item)

(***************************************************************************)
(* Timers: setTimeout / clearTimeout.                                      *)
(***************************************************************************)
\* a handle that names no timer (state.loadingTimeout = null)
NoTimer == 0

TimerIds(ts) == {t.id : t \in ts}

\* the id setTimeout returns: one that names no timer, pending or remembered
FreshId(used) == CHOOSE n \in 1..(Cardinality(used) + 1) : n \notin used

setTimeout(ts, id, kind, spaId, delay) ==
    ts \cup {[id |-> id, kind |-> kind, spa |-> spaId,
              superseded |-> FALSE, remaining |-> delay]}

clearTimeout(ts, handle) == {t \in ts : t.id # handle}

\* t1 was created before t2: timers of an older navigation first, and within
\* one loadSpa the indicator timer before the timeout timer
CreatedBefore(t1, t2) ==
    \/ t1.superseded /\ ~t2.superseded
    \/ t1.superseded = t2.superseded /\ t1.kind = "indicator" /\ t2.kind = "timeout"

(***************************************************************************)
(* UI updates (spa03.js, "UI Updates" and "Sidebar Management").           *)
(***************************************************************************)
showLoading(el) == [el EXCEPT !.loadingIndicator = TRUE]

hideLoading(el) == [el EXCEPT !.loadingIndicator = FALSE]

showError(el, message) ==
    [el EXCEPT !.errorDisplay = TRUE, !.errorMessage = message]

hideError(el) == [el EXCEPT !.errorDisplay = FALSE]

\* faulty variant of updateActiveNavLink: the other links keep their mark
updateActiveNavLink_adds(el, spaId) ==
    [el EXCEPT !.activeLinks = el.activeLinks \cup {l \in RouteIds : l = spaId}]

updateActiveNavLink(el, spaId) ==
    [el EXCEPT !.activeLinks = {l \in RouteIds : l = spaId}]

updatePageTitle(el, spaId) ==
    IF spaRoutes(spaId).title # ""
    THEN [el EXCEPT !.title = <<spaRoutes(spaId).title, SidebarTitle>>]
    ELSE el

openSidebar(st) == [st EXCEPT !.sidebarOpen = TRUE]

closeSidebar(st) == [st EXCEPT !.sidebarOpen = FALSE]

\* faulty variant of toggleSidebar: the desktop layout is left alone
toggleSidebar_mobileOnly(st) ==
    IF ~st.isMobile THEN st
    ELSE IF st.sidebarOpen THEN closeSidebar(st) ELSE openSidebar(st)

toggleSidebar(st) == IF st.sidebarOpen THEN closeSidebar(st) ELSE openSidebar(st)

\* faulty variant of checkMobileState: a width equal to the breakpoint is desktop
checkMobileState_strict(st, width) ==
    LET isMobile == width < MobileBreakpoint IN
    IF st.isMobile /\ ~isMobile /\ st.sidebarOpen
    THEN closeSidebar([st EXCEPT !.isMobile = isMobile])
    ELSE [st EXCEPT !.isMobile = isMobile]

\* checkMobileState with window.innerWidth = width
checkMobileState(st, width) ==
    LET isMobile == width <= MobileBreakpoint IN
    IF st.isMobile /\ ~isMobile /\ st.sidebarOpen
    THEN closeSidebar([st EXCEPT !.isMobile = isMobile])
    ELSE [st EXCEPT !.isMobile = isMobile]

\* the keys tried on the keydown listener
Keys == {"Escape", "Enter"}

\* faulty variant of handleKeyDown: the layout is not looked at
handleKeyDown_anyLayout(st, key) ==
    IF key = "Escape" /\ st.sidebarOpen THEN closeSidebar(st) ELSE st

\* handleKeyDown with event.key = key
handleKeyDown(st, key) ==
    IF key = "Escape" /\ st.isMobile /\ st.sidebarOpen
    THEN closeSidebar(st)
    ELSE st

\* the wait of the debounced resize listener (250 ms), in ticks
DebounceWait == 2

\* faulty variant of debounce: the pending call is not cancelled
debounce_stacking(ts, handle, id, wait) ==
    setTimeout(ts, id, "resize", Null, wait)

\* debounce(func, wait), one run of executedFunction: handle is the closure's
\* timeout variable and id the handle of the timer it schedules
debounce(ts, handle, id, wait) ==
    setTimeout(clearTimeout(ts, handle), id, "resize", Null, wait)

(***************************************************************************)
(* History variables.                                                      *)
(***************************************************************************)
\* superseded: the frame event or timer handled belonged to a navigation that
\* a later loadSpa had already replaced
Op(name, arg, superseded) == [op |-> name, arg |-> arg, superseded |-> superseded]

\* the latest accepted navigation: not yet resolved ("navigating"), or the
\* handler that resolved it; shown tells whether its indicator timer has
\* put up the loading indicator; superseding is the page of the unresolved
\* navigation it replaced, or Null
Navigating(n, st) ==
    [resolution |-> "navigating", shown |-> FALSE,
     superseding |-> IF n.resolution = "navigating" THEN st.currentSpa ELSE Null]

Resolve(n, how) == [n EXCEPT !.resolution = how]

(***************************************************************************)
(* SPA loading.                                                            *)
(***************************************************************************)
\* faulty variants of clearTimeouts: nothing is cleared; only the first is cleared
clearTimeouts_none(ts, st) == ts

clearTimeouts_first(ts, st) == clearTimeout(ts, st.loadingTimeout)

\* clearTimeout(state.loadingTimeout); clearTimeout(state.iframeLoadTimeout)
clearTimeouts(ts, st) ==
    clearTimeout(clearTimeout(ts, st.loadingTimeout), st.iframeLoadTimeout)

\* faulty variants of differsFromCurrent: the current page is not compared; it is
\* compared only while no load is pending
differsFromCurrent_any(spaId, st) == spaId # ""

differsFromCurrent_idle(spaId, st) ==
    spaId # "" /\ (spaId # st.currentSpa \/ st.loading)

\* the test both handleHashChange and handleNavClick make before navigating
differsFromCurrent(spaId, st) == spaId # "" /\ spaId # st.currentSpa

\* the navigation a new src assignment leaves behind: its fetch is aborted,
\* its events already queued stay queued
Supersede(events) ==
    [i \in 1..Len(events) |-> [events[i] EXCEPT !.superseded = TRUE]]

\* loadSpa(spaId), called with the state object st
loadSpa(spaId, st) ==
    IF ~RouteFound(spaId)
    THEN /\ elements' = showError(elements,
                                  template(Messages.unknown, [app |-> spaId]))
         /\ state' = st
         /\ UNCHANGED <<storage, timers, frameLoading, frameEvents, nav>>
    ELSE LET kept == {IF t.kind = "resize" THEN t
                      ELSE [t EXCEPT !.superseded = TRUE] :
                          t \in clearTimeouts(timers, st)}
             used == TimerIds(kept) \cup {st.loadingTimeout, st.iframeLoadTimeout,
                                           resize.timeout}
             id1  == FreshId(used)
             id2  == FreshId(used \cup {id1})
         IN /\ state' = [st EXCEPT !.currentSpa = spaId,
                                   !.loading = TRUE,
                                   !.loadingTimeout = id1,
                                   !.iframeLoadTimeout = id2]
            /\ storage' = storageSet(storage, "lastVisitedSpa", spaId, NAMESPACE)
            /\ timers' = setTimeout(
                             setTimeout(kept, id1, "indicator", spaId,
                                        config.loadingDelay),
                             id2, "timeout", spaId, config.iframeTimeout)
            /\ elements' = [updatePageTitle(
                               updateActiveNavLink(hideError(elements), spaId),
                               spaId)
                            EXCEPT !.contentFrame = spaRoutes(spaId).path]
            /\ frameLoading' = TRUE
            /\ frameEvents' = Supersede(frameEvents)
            /\ nav' = Navigating(nav, st)

\* the callback of the loading-indicator timer
onLoadingDelay(el, st) == IF st.loading THEN showLoading(el) ELSE el

\* faulty variant of onIframeTimeout: the callback shows nothing
onIframeTimeout_silent(el, st) == el

\* the callback of the iframe timeout timer
onIframeTimeout(el, st) ==
    IF st.loading THEN hideLoading(showError(el, Messages.timeout)) ELSE el

Contents == {"ok", "notfound", "opaque"}

\* faulty variant of handleIframeLoad: the frame's content is not inspected
handleIframeLoad_trusting(content) ==
    /\ timers' = clearTimeouts(timers, state)
    /\ elements' = hideLoading(elements)
    /\ state' = [state EXCEPT !.loading = FALSE]
    /\ nav' = Resolve(nav, "loaded")

\* handleIframeLoad; content is what the inspection of the frame finds:
\* "ok", "notfound" (title 'Error' or '404' in the body) or "opaque"
\* (cross-origin, the inspection throws)
handleIframeLoad(content) ==
    /\ timers' = clearTimeouts(timers, state)
    /\ IF content = "notfound"
       THEN /\ elements' = showError(elements, Messages.notFound)
            /\ state' = state
            /\ nav' = Resolve(nav, "notFound")
       ELSE /\ elements' = hideLoading(elements)
            /\ state' = [state EXCEPT !.loading = FALSE]
            /\ nav' = Resolve(nav, "loaded")

\* faulty variant of handleIframeError: the loading indicator is left as it is
handleIframeError_keepsIndicator ==
    /\ timers' = clearTimeouts(timers, state)
    /\ elements' = showError(elements, Messages.loadFailed)
    /\ state' = state
    /\ nav' = Resolve(nav, "loadFailed")

\* handleIframeError
handleIframeError ==
    /\ timers' = clearTimeouts(timers, state)
    /\ elements' = showError(hideLoading(elements), Messages.loadFailed)
    /\ state' = state
    /\ nav' = Resolve(nav, "loadFailed")


(***************************************************************************)
(* Initial state: the module-level state object, the page as served, and   *)
(* what the browser holds when the script starts.                          *)
(***************************************************************************)
\* meta.title
MetaTitle == "SPA03"

\* the debounced listener before any resize event: its closure's timeout is
\* undefined; the rest is history: quiet, the ticks since the last resize
\* event (counted up to DebounceWait); burst, the resize events that
\* followed each other within the wait (counted up to 2); calls, the calls
\* of checkMobileState made since the last resize event
NoResize ==
    [timeout |-> NoTimer, quiet |-> DebounceWait, burst |-> 0, calls |-> 0]

(***************************************************************************)
(* The SPA02 page (src/src/spa02/spa02.js): the greeting cycler.           *)
(***************************************************************************)
\* metadata.languages, in list order
Languages ==
    <<[code |-> "en", greeting |-> "Hello World", rtl |-> FALSE],
      [code |-> "ja", greeting |-> "Konnichiwa Sekai", rtl |-> FALSE],
      [code |-> "ar", greeting |-> "Marhaban Bialealam", rtl |-> TRUE]>>

LanguageCodes == {Languages[i].code : i \in 1..Len(Languages)}

\* a code that names no entry of the list
UnknownCodes == {"xx"}

\* SPA02.languages.find / findIndex by code; positions count from 0 and
\* findIndex gives -1 for a code that is not listed
find(langCode) ==
    Languages[CHOOSE i \in 1..Len(Languages) :
                  /\ Languages[i].code = langCode
                  /\ \A j \in 1..(i - 1) : Languages[j].code # langCode]

findIndex(langCode) ==
    IF langCode \in LanguageCodes
    THEN (CHOOSE i \in 1..Len(Languages) :
              /\ Languages[i].code = langCode
              /\ \A j \in 1..(i - 1) : Languages[j].code # langCode) - 1
    ELSE -1

\* the values of the speed slider, as the strings the DOM holds, and
\* settings.defaultSpeed
SpeedValues == {"1", "2"}
DefaultSpeed == "1"

\* parseFloat(speedSlider.value) * 1000, in ticks of 1000 ms
parseFloat(value) == CASE value = "1" -> 1 [] value = "2" -> 2

\* content.status
StatusText == [cycling |-> "Auto-cycling", manual |-> "Manual"]

\* the SPA02 object, its controls and its interval timers before initSPA02;
\* history: unloading, set once beforeunload was dispatched, and waited, the
\* time since the interval timer was started or ran its callback
SPA02 ==
    [pc |-> "init", currentIndex |-> 0, cycleInterval |-> NoTimer,
     isCycling |-> TRUE, select |-> "", slider |-> "", greeting |-> "",
     rtl |-> FALSE, status |-> "", intervals |-> {}, errorState |-> FALSE,
     unloading |-> FALSE, waited |-> 0]

(***************************************************************************)
(* The build script: its steps, its input layout and what a run records.   *)
(***************************************************************************)
\* the build steps in the order main calls them
Steps ==
    <<"validate_source", "clean_dist", "create_dist_structure",
      "copy_shared_files", "copy_spa01", "copy_spa02", "copy_spa03",
      "create_health_check", "create_404_page", "generate_build_info">>

\* required_dirs of validate_source, below $SRC_DIR
RequiredDirs == <<"spa01", "spa02", "spa03", "shared">>

\* the files each copy step hands to cp, in the order it does
SharedFiles ==
    <<"shared/styles/variables.css", "shared/styles/common.css",
      "shared/js/utils.js">>
Spa01Files ==
    <<"spa01/spa01.html", "spa01/spa01.css", "spa01/spa01.js",
      "spa01/spa01.json">>
Spa02Files ==
    <<"spa02/spa02.html", "spa02/spa02.css", "spa02/spa02.js",
      "spa02/spa02.json">>
Spa03Files ==
    <<"spa03/index.html", "spa03/spa03.css", "spa03/spa03.js",
      "spa03/spa03.json">>

Range(seq) == {seq[i] : i \in 1..Len(seq)}

SourceFiles ==
    Range(SharedFiles) \cup Range(Spa01Files) \cup Range(Spa02Files)
        \cup Range(Spa03Files)

\* the exit status of a script that is still running
NoExit == -1

\* no build is running: the counters and arrays as the script declares
\* them, an empty log, nothing printed by a tool, nothing in _dist
NoBuild ==
    [pc |-> "idle", STEP_NUMBER |-> 0, STEP_RESULTS |-> << >>,
     started |-> << >>, log |-> << >>, stderr |-> << >>, exit |-> NoExit,
     srcDirs |-> {}, srcFiles |-> {}, dist |-> {}]

Init ==
    /\ state = [currentSpa |-> Null, isMobile |-> FALSE, sidebarOpen |-> FALSE,
                loading |-> FALSE, loadingTimeout |-> NoTimer,
                iframeLoadTimeout |-> NoTimer]
    /\ config \in [loadingDelay : 1..MaxDelay, iframeTimeout : 1..MaxDelay]
    /\ build = NoBuild
    /\ elements = [loadingIndicator |-> FALSE, errorDisplay |-> FALSE,
                   errorMessage |-> NoMessage, contentFrame |-> Null,
                   activeLinks |-> {}, title |-> <<MetaTitle>>,
                   fallback |-> FALSE]
    /\ innerWidth = 1
    /\ hash \in Hashes
    /\ hashEvents = << >>
    /\ storage \in {[EmptyStorage EXCEPT
                         ![finalKey("lastVisitedSpa", NAMESPACE)] = item] :
                        item \in {NoItem} \cup {stringify(v) : v \in SavedIds}}
    /\ timers = {}
    /\ frameLoading = FALSE
    /\ frameEvents = << >>
    /\ resize = NoResize
    /\ cycler = SPA02
    /\ pc = "init"
    /\ requests = MaxRequests
    /\ lastOp = Op("none", "", FALSE)
    /\ nav = [resolution |-> "idle", shown |-> FALSE, superseding |-> Null]

(***************************************************************************)
(* Startup.                                                                *)
(***************************************************************************)
\* faulty variant of InitializeApp: setupRouting ignores the saved page
InitializeApp_ignoresSaved ==
    /\ pc = "init"
    /\ pc' = "running"
    /\ LET newHash == IF hash = "" THEN DefaultSpa ELSE hash
       IN /\ hash' = newHash
          /\ hashEvents' = IF newHash # hash THEN Append(hashEvents, newHash)
                           ELSE hashEvents
          /\ loadSpa(newHash, checkMobileState(state, innerWidth))
          /\ lastOp' = Op("initializeApp", newHash, FALSE)
    /\ UNCHANGED <<config, build, resize, cycler, innerWidth, requests>>

\* initializeApp with the metadata loaded: checkMobileState, setupRouting,
\* loadInitialSpa
InitializeApp ==
    /\ pc = "init"
    /\ pc' = "running"
    /\ LET savedSpa   == storageGet(storage, "lastVisitedSpa", Null, NAMESPACE)
           initialSpa == IF savedSpa # Null /\ savedSpa # ""
                         THEN savedSpa ELSE DefaultSpa
           newHash    == IF hash = "" THEN initialSpa ELSE hash
           spaId      == IF newHash # "" THEN newHash ELSE DefaultSpa
       IN /\ hash' = newHash
          /\ hashEvents' = IF newHash # hash THEN Append(hashEvents, newHash)
                         ELSE hashEvents
          /\ loadSpa(spaId, checkMobileState(state, innerWidth))
          /\ lastOp' = Op("initializeApp", spaId, FALSE)
    /\ UNCHANGED <<config, build, resize, cycler, innerWidth, requests>>

\* initializeApp when loadJSON returns null: loadMetadata throws and the catch
\* block replaces the page by the fallback view
InitializeAppFailed ==
    /\ pc = "init"
    /\ pc' = "failed"
    /\ elements' = [elements EXCEPT !.fallback = TRUE]
    /\ lastOp' = Op("showFallbackError", "", FALSE)
    /\ UNCHANGED <<state, config, build, resize, cycler, innerWidth, hash,
                   hashEvents, storage, timers, frameLoading, frameEvents,
                   requests, nav>>

(***************************************************************************)
(* Routing events.                                                         *)
(***************************************************************************)
\* the user (address bar, back/forward) changes the hash to h
LocationChange(h) ==
    /\ pc = "running"
    /\ requests > 0
    /\ h # hash
    /\ hash' = h
    /\ hashEvents' = Append(hashEvents, h)
    /\ requests' = requests - 1
    /\ UNCHANGED <<state, config, build, resize, cycler, elements, innerWidth,
                   storage, timers, frameLoading, frameEvents, pc, lastOp,
                   nav>>

\* handleHashChange, run for a queued hashchange event
HashChange ==
    /\ pc = "running"
    /\ hashEvents # << >>
    /\ hashEvents' = Tail(hashEvents)
    /\ IF differsFromCurrent(hash, state)
       THEN loadSpa(hash, state)
       ELSE UNCHANGED <<state, elements, storage, timers, frameLoading,
                        frameEvents, nav>>
    /\ lastOp' = Op("handleHashChange", hash, FALSE)
    /\ UNCHANGED <<config, build, resize, cycler, innerWidth, hash, pc, requests>>

\* faulty variant of NavClick: the click handler also calls loadSpa itself
NavClick_loads(spaId) ==
    /\ pc = "running"
    /\ requests > 0
    /\ requests' = requests - 1
    /\ IF differsFromCurrent(spaId, state)
       THEN /\ hash' = spaId
            /\ hashEvents' = IF spaId # hash THEN Append(hashEvents, spaId)
                           ELSE hashEvents
            /\ loadSpa(spaId, IF state.isMobile THEN closeSidebar(state)
                              ELSE state)
       ELSE UNCHANGED <<hash, hashEvents, state, elements, storage, timers,
                        frameLoading, frameEvents, nav>>
    /\ lastOp' = Op("handleNavClick", spaId, FALSE)
    /\ UNCHANGED <<config, build, resize, cycler, innerWidth, pc>>

\* handleNavClick on the nav link of spaId
NavClick(spaId) ==
    /\ pc = "running"
    /\ requests > 0
    /\ requests' = requests - 1
    /\ IF differsFromCurrent(spaId, state)
       THEN /\ hash' = spaId
            /\ hashEvents' = IF spaId # hash THEN Append(hashEvents, spaId)
                           ELSE hashEvents
            /\ state' = IF state.isMobile THEN closeSidebar(state) ELSE state
       ELSE UNCHANGED <<hash, hashEvents, state>>
    /\ lastOp' = Op("handleNavClick", spaId, FALSE)
    /\ UNCHANGED <<config, build, resize, cycler, elements, innerWidth, storage,
                   timers, frameLoading, frameEvents, pc, nav>>

\* faulty variant of hasCurrentSpa: only an errored page is retried
hasCurrentSpa_errored(st) == st.currentSpa # Null /\ elements.errorDisplay

\* the test retryLoadSpa makes: state.currentSpa is set
hasCurrentSpa(st) == st.currentSpa # Null

\* retryLoadSpa, the click handler of the retry button
RetryClick ==
    /\ pc = "running"
    /\ requests > 0
    /\ requests' = requests - 1
    /\ IF hasCurrentSpa(state)
       THEN loadSpa(state.currentSpa, state)
       ELSE UNCHANGED <<state, elements, storage, timers, frameLoading,
                        frameEvents, nav>>
    /\ lastOp' = Op("retryLoadSpa", state.currentSpa, FALSE)
    /\ UNCHANGED <<config, build, resize, cycler, innerWidth, hash, hashEvents, pc>>

\* toggleSidebar, the click handler of the sidebar toggle
ToggleSidebar ==
    /\ pc = "running"
    /\ state' = toggleSidebar(state)
    /\ lastOp' = Op("toggleSidebar", "", FALSE)
    /\ UNCHANGED <<config, build, resize, cycler, elements, innerWidth, hash,
                   hashEvents, storage, timers, frameLoading, frameEvents, pc,
                   requests, nav>>

\* closeSidebar, the click handler of the sidebar overlay
OverlayClick ==
    /\ pc = "running"
    /\ state' = closeSidebar(state)
    /\ lastOp' = Op("closeSidebar", "", FALSE)
    /\ UNCHANGED <<config, build, resize, cycler, elements, innerWidth, hash,
                   hashEvents, storage, timers, frameLoading, frameEvents, pc,
                   requests, nav>>

\* handleKeyDown, the document's keydown listener; the history tells whether
\* the handler went on to closeSidebar
KeyDown(key) ==
    /\ pc = "running"
    /\ state' = handleKeyDown(state, key)
    /\ lastOp' = Op(IF state' # state THEN "handleKeyDown>closeSidebar"
                    ELSE "handleKeyDown", key, FALSE)
    /\ UNCHANGED <<config, build, resize, cycler, elements, innerWidth, hash,
                   hashEvents, storage, timers, frameLoading, frameEvents, pc,
                   requests, nav>>

ResizeTimers == {t \in timers : t.kind = "resize"}

\* the window is resized to width and the debounced listener runs
Resize(width) ==
    /\ pc = "running"
    /\ innerWidth' = width
    /\ LET id == FreshId(TimerIds(timers) \cup
                         {state.loadingTimeout, state.iframeLoadTimeout,
                          resize.timeout})
       IN /\ timers' = debounce(timers, resize.timeout, id, DebounceWait)
          /\ resize' = [timeout |-> id, quiet |-> 0, calls |-> 0,
                        burst |-> IF resize.quiet = DebounceWait THEN 1 ELSE 2]
    /\ lastOp' = Op("executedFunction", "", FALSE)
    /\ UNCHANGED <<state, config, build, cycler, elements, hash, hashEvents, storage,
                   frameLoading, frameEvents, pc, requests, nav>>

\* the debounce timer fires: later() clears the handle and calls
\* checkMobileState; the history tells whether that went on to closeSidebar
ResizeSettled ==
    \E t \in ResizeTimers :
        /\ t.remaining = 0
        /\ timers' = clearTimeout(timers \ {t}, resize.timeout)
        /\ state' = checkMobileState(state, innerWidth)
        /\ resize' = [resize EXCEPT !.calls = IF @ < 2 THEN @ + 1 ELSE @]
        /\ lastOp' = Op(IF state'.sidebarOpen # state.sidebarOpen
                        THEN "checkMobileState>closeSidebar"
                        ELSE "checkMobileState", "", FALSE)
        /\ UNCHANGED <<config, build, cycler, elements, innerWidth, hash, hashEvents,
                       storage, frameLoading, frameEvents, pc, requests, nav>>

(***************************************************************************)
(* The content frame.                                                      *)
(***************************************************************************)
\* the fetch started by the last src assignment ends and the frame's load
\* event is queued
FrameCompletes ==
    /\ frameLoading
    /\ Len(frameEvents) < MaxQueue
    /\ frameEvents' = Append(frameEvents, [type |-> "load", superseded |-> FALSE])
    /\ frameLoading' = FALSE
    /\ UNCHANGED <<state, config, build, resize, cycler, elements, innerWidth,
                   hash, hashEvents, storage, timers, pc, requests, lastOp,
                   nav>>

\* the fetch fails and the frame's error event is queued
FrameFails ==
    /\ frameLoading
    /\ Len(frameEvents) < MaxQueue
    /\ frameEvents' = Append(frameEvents, [type |-> "error", superseded |-> FALSE])
    /\ frameLoading' = FALSE
    /\ UNCHANGED <<state, config, build, resize, cycler, elements, innerWidth,
                   hash, hashEvents, storage, timers, pc, requests, lastOp,
                   nav>>

\* the oldest queued frame event is a load event: handleIframeLoad runs and
\* its inspection of the frame finds content
IframeLoad(content) ==
    /\ frameEvents # << >>
    /\ Head(frameEvents).type = "load"
    /\ frameEvents' = Tail(frameEvents)
    /\ handleIframeLoad(content)
    /\ lastOp' = Op("handleIframeLoad", content, Head(frameEvents).superseded)
    /\ UNCHANGED <<config, build, resize, cycler, innerWidth, hash, hashEvents,
                   storage, frameLoading, pc, requests>>

\* the oldest queued frame event is an error event: handleIframeError runs
IframeError ==
    /\ frameEvents # << >>
    /\ Head(frameEvents).type = "error"
    /\ frameEvents' = Tail(frameEvents)
    /\ handleIframeError
    /\ lastOp' = Op("handleIframeError", "none", Head(frameEvents).superseded)
    /\ UNCHANGED <<config, build, resize, cycler, innerWidth, hash, hashEvents,
                   storage, frameLoading, pc, requests>>

(***************************************************************************)
(* Timers.                                                                 *)
(***************************************************************************)
Due(ts) == {t \in ts : t.remaining = 0}

\* the next timer the event loop runs: due, and created before the others due
NextDue(t) ==
    /\ t \in Due(timers)
    /\ \A t2 \in Due(timers) : ~CreatedBefore(t2, t)

\* the loading-indicator timer fires
LoadingDelayElapsed ==
    \E t \in timers :
        /\ NextDue(t)
        /\ t.kind = "indicator"
        /\ timers' = timers \ {t}
        /\ elements' = onLoadingDelay(elements, state)
        /\ nav' = IF state.loading THEN [nav EXCEPT !.shown = TRUE] ELSE nav
        /\ lastOp' = Op("onLoadingDelay", t.spa, t.superseded)
        /\ UNCHANGED <<state, config, build, resize, cycler, innerWidth, hash,
                       hashEvents, storage, frameLoading, frameEvents, pc,
                       requests>>

\* the iframe timeout timer fires
IframeTimeoutElapsed ==
    \E t \in timers :
        /\ NextDue(t)
        /\ t.kind = "timeout"
        /\ timers' = timers \ {t}
        /\ elements' = onIframeTimeout(elements, state)
        /\ nav' = IF state.loading THEN Resolve(nav, "timeout") ELSE nav
        /\ lastOp' = Op("onIframeTimeout", t.spa, t.superseded)
        /\ UNCHANGED <<state, config, build, resize, cycler, innerWidth, hash,
                       hashEvents, storage, frameLoading, frameEvents, pc,
                       requests>>

\* one unit of time passes; no timer is overdue
Tick ==
    /\ timers # {}
    /\ Due(timers) = {}
    /\ timers' = {[t EXCEPT !.remaining = t.remaining - 1] : t \in timers}
    /\ resize' = [resize EXCEPT !.quiet = IF @ < DebounceWait THEN @ + 1 ELSE @]
    /\ UNCHANGED <<state, config, build, cycler, elements, innerWidth, hash,
                   hashEvents, storage, frameLoading, frameEvents, pc,
                   requests, lastOp, nav>>

(***************************************************************************)
(* Specifications.                                                         *)
(***************************************************************************)
Next ==
    \/ InitializeApp
    \/ InitializeAppFailed
    \/ \E h \in Hashes : LocationChange(h)
    \/ HashChange
    \/ \E spaId \in RouteIds : NavClick(spaId)
    \/ RetryClick
    \/ FrameCompletes
    \/ FrameFails
    \/ \E content \in Contents : IframeLoad(content)
    \/ IframeError
    \/ LoadingDelayElapsed
    \/ IframeTimeoutElapsed
    \/ Tick

Spec == Init /\ [][Next]_vars

\* timers fire when due and time does not stop
FairSpec ==
    /\ Spec
    /\ WF_vars(Tick)
    /\ WF_vars(LoadingDelayElapsed)
    /\ WF_vars(IframeTimeoutElapsed)

\* the shell opened again without a hash, the stored lastVisitedSpa being an
\* id an earlier loadSpa stored or another version of the page left behind,
\* which is not an entry of the route table
ReopenedInit ==
    /\ state = [currentSpa |-> Null, isMobile |-> FALSE, sidebarOpen |-> FALSE,
                loading |-> FALSE, loadingTimeout |-> NoTimer,
                iframeLoadTimeout |-> NoTimer]
    /\ config \in [loadingDelay : 1..MaxDelay, iframeTimeout : 1..MaxDelay]
    /\ build = NoBuild
    /\ elements = [loadingIndicator |-> FALSE, errorDisplay |-> FALSE,
                   errorMessage |-> NoMessage, contentFrame |-> Null,
                   activeLinks |-> {}, title |-> <<MetaTitle>>,
                   fallback |-> FALSE]
    /\ innerWidth = 1
    /\ hash = ""
    /\ hashEvents = << >>
    /\ storage \in {[EmptyStorage EXCEPT
                         ![finalKey("lastVisitedSpa", NAMESPACE)] = item] :
                        item \in {stringify(v) : v \in AllIds \ RouteIds}}
    /\ timers = {}
    /\ frameLoading = FALSE
    /\ frameEvents = << >>
    /\ resize = NoResize
    /\ cycler = SPA02
    /\ pc = "init"
    /\ requests = MaxRequests
    /\ lastOp = Op("none", "", FALSE)
    /\ nav = [resolution |-> "idle", shown |-> FALSE, superseding |-> Null]

ReopenedSpec == ReopenedInit /\ [][Next]_vars

\* the shell with its sidebar and resize listener, started on the default
\* page with no saved preference, at any of the widths; the content frame
\* stays silent, so every navigation ends by its timeout
SidebarInit ==
    /\ state = [currentSpa |-> Null, isMobile |-> FALSE, sidebarOpen |-> FALSE,
                loading |-> FALSE, loadingTimeout |-> NoTimer,
                iframeLoadTimeout |-> NoTimer]
    /\ config = [loadingDelay |-> 1, iframeTimeout |-> 1]
    /\ build = NoBuild
    /\ elements = [loadingIndicator |-> FALSE, errorDisplay |-> FALSE,
                   errorMessage |-> NoMessage, contentFrame |-> Null,
                   activeLinks |-> {}, title |-> <<MetaTitle>>,
                   fallback |-> FALSE]
    /\ innerWidth \in Widths
    /\ hash = ""
    /\ hashEvents = << >>
    /\ storage = EmptyStorage
    /\ timers = {}
    /\ frameLoading = FALSE
    /\ frameEvents = << >>
    /\ resize = NoResize
    /\ cycler = SPA02
    /\ pc = "init"
    /\ requests = MaxRequests
    /\ lastOp = Op("none", "", FALSE)
    /\ nav = [resolution |-> "idle", shown |-> FALSE, superseding |-> Null]

SidebarNext ==
    \/ InitializeApp
    \/ HashChange
    \/ \E spaId \in RouteIds : NavClick(spaId)
    \/ LoadingDelayElapsed
    \/ IframeTimeoutElapsed
    \/ Tick
    \/ ToggleSidebar
    \/ OverlayClick
    \/ \E key \in Keys : KeyDown(key)
    \/ \E width \in Widths : Resize(width)
    \/ ResizeSettled

SidebarSpec == SidebarInit /\ [][SidebarNext]_vars

(***************************************************************************)
(* The greeting cycler: operations of spa02.js on the SPA02 object cy.     *)
(***************************************************************************)
\* setInterval / clearInterval over the page's repeating timers
setInterval(ts, id, period) ==
    ts \cup {[id |-> id, remaining |-> period, period |-> period]}

clearInterval(ts, handle) == {t \in ts : t.id # handle}

\* faulty variant of updateGreeting: the text direction is left as it is
updateGreeting_keepsDirection(cy, langCode) ==
    IF langCode \notin LanguageCodes THEN cy
    ELSE [cy EXCEPT !.greeting = find(langCode).greeting]

\* updateGreeting(langCode)
updateGreeting(cy, langCode) ==
    IF langCode \notin LanguageCodes THEN cy
    ELSE [cy EXCEPT !.greeting = find(langCode).greeting,
                    !.rtl = find(langCode).rtl]

\* saveToStorage
saveToStorage(store, cy) ==
    storageSet(storageSet(store, "selectedLanguage", cy.select, NAMESPACE02),
               "cycleSpeed", cy.slider, NAMESPACE02)

\* faulty variant of loadFromStorage: a saved language is taken unchecked
loadFromStorage_anyLanguage(store, cy) ==
    LET savedLang  == storageGet(store, "selectedLanguage", Null, NAMESPACE02)
        savedSpeed == storageGet(store, "cycleSpeed", Null, NAMESPACE02)
    IN [cy EXCEPT
           !.select = IF savedLang \notin {Null, ""} THEN savedLang ELSE @,
           !.slider = IF savedSpeed \notin {Null, ""} THEN savedSpeed ELSE @]

\* loadFromStorage: a saved language is taken if it is listed, a saved speed
\* if there is one
loadFromStorage(store, cy) ==
    LET savedLang  == storageGet(store, "selectedLanguage", Null, NAMESPACE02)
        savedSpeed == storageGet(store, "cycleSpeed", Null, NAMESPACE02)
    IN [cy EXCEPT
           !.select = IF savedLang \notin {Null, ""}
                         /\ savedLang \in LanguageCodes
                      THEN savedLang ELSE @,
           !.slider = IF savedSpeed \notin {Null, ""} THEN savedSpeed ELSE @]

\* faulty variant of startCycling: the running timer is not cleared
startCycling_stacking(cy) ==
    LET id == FreshId(TimerIds(cy.intervals) \cup {cy.cycleInterval})
    IN [cy EXCEPT !.intervals = setInterval(@, id, parseFloat(cy.slider)),
                  !.cycleInterval = id,
                  !.isCycling = TRUE,
                  !.status = StatusText.cycling]

\* startCycling
startCycling(cy) ==
    LET cleared == IF cy.cycleInterval # NoTimer
                   THEN clearInterval(cy.intervals, cy.cycleInterval)
                   ELSE cy.intervals
        id == FreshId(TimerIds(cleared) \cup {cy.cycleInterval})
    IN [cy EXCEPT !.intervals = setInterval(cleared, id, parseFloat(cy.slider)),
                  !.cycleInterval = id,
                  !.isCycling = TRUE,
                  !.status = StatusText.cycling]

\* faulty variant of stopCycling: the timer is left running
stopCycling_keepsTimer(cy) ==
    [cy EXCEPT !.cycleInterval = NoTimer,
               !.isCycling = FALSE,
               !.status = IF cy.pc = "running" THEN StatusText.manual ELSE @]

\* stopCycling; while SPA02.metadata is null (initSPA02 has not loaded it,
\* or has failed) reading metadata.content throws before the status is set
stopCycling(cy) ==
    [cy EXCEPT !.intervals = IF cy.cycleInterval # NoTimer
                             THEN clearInterval(@, cy.cycleInterval) ELSE @,
               !.cycleInterval = NoTimer,
               !.isCycling = FALSE,
               !.status = IF cy.pc = "running" THEN StatusText.manual ELSE @]

\* faulty variant of onInterval: the select is not given the new code
onInterval_keepsSelect(cy) ==
    LET index == (cy.currentIndex + 1) % Len(Languages)
        language == Languages[index + 1]
    IN updateGreeting([cy EXCEPT !.currentIndex = index], language.code)

\* faulty variant of onInterval: the index stops at the last entry
onInterval_noWrap(cy) ==
    LET index == IF cy.currentIndex + 1 < Len(Languages)
                 THEN cy.currentIndex + 1 ELSE cy.currentIndex
        language == Languages[index + 1]
    IN updateGreeting([cy EXCEPT !.currentIndex = index,
                                 !.select = language.code],
                      language.code)

\* the callback of the interval timer
onInterval(cy) ==
    LET index == (cy.currentIndex + 1) % Len(Languages)
        language == Languages[index + 1]
    IN updateGreeting([cy EXCEPT !.currentIndex = index,
                                 !.select = language.code],
                      language.code)

ShellVars == <<state, config, build, elements, innerWidth, hash, hashEvents, timers,
               frameLoading, frameEvents, resize, pc, requests, nav>>

\* initSPA02 with the metadata loaded; the select starts on its first option
\* and the slider on settings.defaultSpeed
InitSPA02 ==
    /\ cycler.pc = "init"
    /\ LET populated == [cycler EXCEPT !.select = Languages[1].code,
                                       !.slider = DefaultSpeed]
           loaded    == loadFromStorage(storage, populated)
           initial   == [loaded EXCEPT !.currentIndex = findIndex(loaded.select)]
       IN cycler' = [startCycling(updateGreeting(initial, initial.select))
                     EXCEPT !.pc = "running", !.waited = 0]
    /\ lastOp' = Op("initSPA02", "", FALSE)
    /\ UNCHANGED <<ShellVars, storage>>

\* initSPA02 when loadJSON returns null: showErrorState
InitSPA02Failed ==
    /\ cycler.pc = "init"
    /\ cycler' = [cycler EXCEPT !.pc = "failed", !.errorState = TRUE]
    /\ lastOp' = Op("showErrorState", "", FALSE)
    /\ UNCHANGED <<ShellVars, storage>>

\* the change listener of the language select, after the select took langCode
SelectChange(langCode) ==
    /\ cycler.pc = "running"
    /\ LET shown == updateGreeting(
                        stopCycling([cycler EXCEPT !.select = langCode]),
                        langCode)
       IN /\ storage' = saveToStorage(storage, shown)
          /\ cycler' = [shown EXCEPT !.currentIndex = findIndex(langCode)]
    /\ lastOp' = Op("change", langCode, FALSE)
    /\ UNCHANGED ShellVars

\* faulty variant of SliderInput: the timer is restarted whether or not the
\* page is cycling
SliderInput_restarts(value) ==
    /\ cycler.pc = "running"
    /\ LET moved == [cycler EXCEPT !.slider = value]
       IN /\ storage' = saveToStorage(storage, moved)
          /\ cycler' = [startCycling(moved) EXCEPT !.waited = 0]
    /\ lastOp' = Op("input", value, FALSE)
    /\ UNCHANGED ShellVars

\* the input listener of the speed slider, after the slider took value
SliderInput(value) ==
    /\ cycler.pc = "running"
    /\ LET moved == [cycler EXCEPT !.slider = value]
       IN /\ storage' = saveToStorage(storage, moved)
          /\ cycler' = IF moved.isCycling
                       THEN [startCycling(moved) EXCEPT !.waited = 0]
                       ELSE moved
    /\ lastOp' = Op("input", value, FALSE)
    /\ UNCHANGED ShellVars

\* an interval timer has run down: its callback runs and the timer restarts
IntervalElapsed ==
    \E t \in cycler.intervals :
        /\ t.remaining = 0
        /\ LET ticked == onInterval(cycler)
           IN /\ storage' = saveToStorage(storage, ticked)
              /\ cycler' = [ticked EXCEPT
                               !.intervals = (@ \ {t}) \cup
                                   {[t EXCEPT !.remaining = t.period]},
                               !.waited = 0]
        /\ lastOp' = Op("onInterval", "", FALSE)
        /\ UNCHANGED ShellVars

\* one unit of time passes on the SPA02 page; no interval timer is overdue
CyclerTick ==
    /\ cycler.intervals # {}
    /\ \A t \in cycler.intervals : t.remaining > 0
    /\ cycler' = [cycler EXCEPT
                     !.intervals =
                         {[t EXCEPT !.remaining = t.remaining - 1] : t \in @},
                     !.waited = @ + 1]
    /\ UNCHANGED <<ShellVars, storage, lastOp>>

\* the beforeunload listener, registered when the script is evaluated:
\* stopCycling. The document lives on until the next one is committed, so a
\* pending initSPA02 and the controls can still run afterwards
BeforeUnload ==
    /\ cycler' = [stopCycling(cycler) EXCEPT !.unloading = TRUE]
    /\ lastOp' = Op("beforeunload", "", FALSE)
    /\ UNCHANGED <<ShellVars, storage>>

\* what an earlier session of the page may have left in localStorage
SavedLanguages == {"ar", "xx"}
SavedSpeeds == {"2"}

\* the SPA02 page on its own, with any saved preferences
CyclerInit ==
    /\ state = [currentSpa |-> Null, isMobile |-> FALSE, sidebarOpen |-> FALSE,
                loading |-> FALSE, loadingTimeout |-> NoTimer,
                iframeLoadTimeout |-> NoTimer]
    /\ config = [loadingDelay |-> 1, iframeTimeout |-> 1]
    /\ build = NoBuild
    /\ elements = [loadingIndicator |-> FALSE, errorDisplay |-> FALSE,
                   errorMessage |-> NoMessage, contentFrame |-> Null,
                   activeLinks |-> {}, title |-> <<MetaTitle>>,
                   fallback |-> FALSE]
    /\ innerWidth = 1
    /\ hash = ""
    /\ hashEvents = << >>
    /\ storage \in
          {[EmptyStorage EXCEPT
               ![finalKey("selectedLanguage", NAMESPACE02)] = lang,
               ![finalKey("cycleSpeed", NAMESPACE02)] = speed] :
             lang \in {NoItem} \cup {stringify(v) : v \in SavedLanguages},
             speed \in {NoItem} \cup {stringify(v) : v \in SavedSpeeds}}
    /\ timers = {}
    /\ frameLoading = FALSE
    /\ frameEvents = << >>
    /\ resize = NoResize
    /\ cycler = SPA02
    /\ pc = "init"
    /\ requests = 0
    /\ lastOp = Op("none", "", FALSE)
    /\ nav = [resolution |-> "idle", shown |-> FALSE, superseding |-> Null]

CyclerNext ==
    \/ InitSPA02
    \/ InitSPA02Failed
    \/ \E langCode \in LanguageCodes \cup UnknownCodes : SelectChange(langCode)
    \/ \E value \in SpeedValues : SliderInput(value)
    \/ IntervalElapsed
    \/ CyclerTick
    \/ BeforeUnload

CyclerSpec == CyclerInit /\ [][CyclerNext]_vars

\* the SPA02 page when the select only ever reports codes of its own options
ListedNext ==
    \/ InitSPA02
    \/ InitSPA02Failed
    \/ \E langCode \in LanguageCodes : SelectChange(langCode)
    \/ \E value \in SpeedValues : SliderInput(value)
    \/ IntervalElapsed
    \/ CyclerTick
    \/ BeforeUnload

ListedSpec == CyclerInit /\ [][ListedNext]_vars

(***************************************************************************)
(* The Preference Store on its own: calls of Utils.storage.set and get.   *)
(***************************************************************************)
\* the arguments the calls are made with: keys, one of them with a dot in
\* it, no namespace or the namespace of a page, string and other values
StoreKeys == {"selectedLanguage", "spa02.selectedLanguage"}
StoreNamespaces == {Null, NAMESPACE, NAMESPACE02}
StoreValues == {"ar", "", Null, undefined, NaN}
StoreDefaults == {Null, "en"}

\* the values JSON text stands for
JsonValues == StoreValues \ {undefined, NaN}

Call(name, key, value, namespace, result) ==
    Op(name, [key |-> key, value |-> value, namespace |-> namespace,
              result |-> result], FALSE)

\* Utils.storage.set(key, value, namespace)
StoreSet(key, value, namespace) ==
    /\ requests > 0
    /\ requests' = requests - 1
    /\ storage' = storageSet(storage, key, value, namespace)
    /\ lastOp' = Call("set", key, value, namespace,
                      IF storageSetStatus(storage, key, value, namespace)
                      THEN "true" ELSE "false")
    /\ UNCHANGED <<state, config, build, elements, innerWidth, hash, hashEvents,
                   timers, frameLoading, frameEvents, resize, cycler, pc,
                   nav>>

\* Utils.storage.get(key, defaultValue, namespace)
StoreGet(key, defaultValue, namespace) ==
    /\ requests > 0
    /\ requests' = requests - 1
    /\ lastOp' = Call("get", key, defaultValue, namespace,
                      storageGet(storage, key, defaultValue, namespace))
    /\ UNCHANGED <<state, config, build, elements, innerWidth, hash, hashEvents,
                   storage, timers, frameLoading, frameEvents, resize,
                   cycler, pc, nav>>

StoreInit ==
    /\ state = [currentSpa |-> Null, isMobile |-> FALSE, sidebarOpen |-> FALSE,
                loading |-> FALSE, loadingTimeout |-> NoTimer,
                iframeLoadTimeout |-> NoTimer]
    /\ config = [loadingDelay |-> 1, iframeTimeout |-> 1]
    /\ build = NoBuild
    /\ elements = [loadingIndicator |-> FALSE, errorDisplay |-> FALSE,
                   errorMessage |-> NoMessage, contentFrame |-> Null,
                   activeLinks |-> {}, title |-> <<MetaTitle>>,
                   fallback |-> FALSE]
    /\ innerWidth = 1
    /\ hash = ""
    /\ hashEvents = << >>
    /\ storage \in {EmptyStorage, BrokenStorage}
    /\ timers = {}
    /\ frameLoading = FALSE
    /\ frameEvents = << >>
    /\ resize = NoResize
    /\ cycler = SPA02
    /\ pc = "init"
    /\ requests = MaxStoreOps
    /\ lastOp = Op("none", "", FALSE)
    /\ nav = [resolution |-> "idle", shown |-> FALSE, superseding |-> Null]

StoreNext ==
    \/ \E key \in StoreKeys, value \in StoreValues,
          namespace \in StoreNamespaces : StoreSet(key, value, namespace)
    \/ \E key \in StoreKeys, defaultValue \in StoreDefaults,
          namespace \in StoreNamespaces : StoreGet(key, defaultValue, namespace)

StoreSpec == StoreInit /\ [][StoreNext]_vars

(***************************************************************************)
(* The shell and the SPA02 page over a localStorage that throws.           *)
(***************************************************************************)
\* the shell opened without a hash or on #spa02, the SPA02 page loading,
\* and a localStorage every access of which throws; the content frame
\* stays silent
BrokenInit ==
    /\ state = [currentSpa |-> Null, isMobile |-> FALSE, sidebarOpen |-> FALSE,
                loading |-> FALSE, loadingTimeout |-> NoTimer,
                iframeLoadTimeout |-> NoTimer]
    /\ config = [loadingDelay |-> 1, iframeTimeout |-> 1]
    /\ build = NoBuild
    /\ elements = [loadingIndicator |-> FALSE, errorDisplay |-> FALSE,
                   errorMessage |-> NoMessage, contentFrame |-> Null,
                   activeLinks |-> {}, title |-> <<MetaTitle>>,
                   fallback |-> FALSE]
    /\ innerWidth = 1
    /\ hash \in {"", "spa02"}
    /\ hashEvents = << >>
    /\ storage = BrokenStorage
    /\ timers = {}
    /\ frameLoading = FALSE
    /\ frameEvents = << >>
    /\ resize = NoResize
    /\ cycler = SPA02
    /\ pc = "init"
    /\ requests = MaxRequests
    /\ lastOp = Op("none", "", FALSE)
    /\ nav = [resolution |-> "idle", shown |-> FALSE, superseding |-> Null]

BrokenNext ==
    \/ InitializeApp
    \/ HashChange
    \/ \E spaId \in RouteIds : NavClick(spaId)
    \/ LoadingDelayElapsed
    \/ IframeTimeoutElapsed
    \/ Tick
    \/ InitSPA02
    \/ \E langCode \in LanguageCodes : SelectChange(langCode)
    \/ \E value \in SpeedValues : SliderInput(value)
    \/ IntervalElapsed
    \/ CyclerTick

BrokenSpec == BrokenInit /\ [][BrokenNext]_vars

(***************************************************************************)
(* The build script: logging, error exits and the ten steps of main.       *)
(***************************************************************************)
\* start_step: the step counter goes up and the step is announced
start_step(b, name) ==
    [b EXCEPT !.STEP_NUMBER = @ + 1,
              !.started = Append(@, name),
              !.log = Append(@, <<"STEP", name>>)]

\* log_error
log_error(b, message) == [b EXCEPT !.log = Append(@, <<"ERROR", message>>)]

\* end_step: the result is recorded and logged
end_step(b, status) ==
    [b EXCEPT !.STEP_RESULTS = Append(@, status),
              !.log = Append(@, <<status, b.started[Len(b.started)]>>)]

\* exit with a status
exit(b, status) == [b EXCEPT !.pc = "exited", !.exit = status]

\* a command of a step fails under set -e: the tool prints its message and
\* the shell exits with the command's status. The ERR trap is set without
\* set -E, so it is not inherited by the function the command runs in and
\* error_handler does not run
errexit(b, message) == exit([b EXCEPT !.stderr = Append(@, message)], 1)

\* the cp commands of a copy step over files, from position i on
RECURSIVE copy(_, _, _)
copy(b, files, i) ==
    IF i > Len(files) THEN b
    ELSE IF files[i] \notin b.srcFiles
         THEN errexit(b, <<"cp: cannot stat", files[i]>>)
         ELSE copy([b EXCEPT !.dist = @ \cup {files[i]}], files, i + 1)

\* a copy step: start_step, the copies, end_step "SUCCESS"
copy_step(b, name, files) ==
    LET copied == copy(start_step(b, name), files, 1)
    IN IF copied.pc = "exited" THEN copied ELSE end_step(copied, "SUCCESS")

\* a step that only writes below _dist
write_step(b, name, paths) ==
    end_step([start_step(b, name) EXCEPT !.dist = @ \cup paths], "SUCCESS")

\* validate_source
validate_source(b) ==
    LET s == start_step(b, "validate_source")
        missing ==
            {i \in 1..Len(RequiredDirs) : RequiredDirs[i] \notin b.srcDirs}
        first == CHOOSE i \in missing : \A j \in missing : i <= j
    IN IF "src" \notin b.srcDirs
       THEN exit(end_step(log_error(s, <<"Source directory not found",
                                         "src">>),
                          "FAILED"), 1)
       ELSE IF missing # {}
       THEN exit(end_step(log_error(s, <<"Required directory not found",
                                         RequiredDirs[first]>>),
                          "FAILED"), 1)
       ELSE end_step(s, "SUCCESS")

BuildVars ==
    <<state, config, elements, innerWidth, hash, hashEvents, storage, timers,
      frameLoading, frameEvents, resize, cycler, pc, requests, lastOp, nav>>

\* main has reached the call of the step name
Step(name) ==
    /\ build.pc = "main"
    /\ Len(build.started) < Len(Steps)
    /\ Steps[Len(build.started) + 1] = name

ValidateSource ==
    /\ Step("validate_source")
    /\ build' = validate_source(build)
    /\ UNCHANGED BuildVars

\* clean_dist: everything below _dist but build.log is deleted
CleanDist ==
    /\ Step("clean_dist")
    /\ build' = end_step([start_step(build, "clean_dist")
                             EXCEPT !.dist = {}], "SUCCESS")
    /\ UNCHANGED BuildVars

CreateDistStructure ==
    /\ Step("create_dist_structure")
    /\ build' = write_step(build, "create_dist_structure",
                           {"spa01/", "spa02/", "spa03/", "shared/styles/",
                            "shared/js/"})
    /\ UNCHANGED BuildVars

CopySharedFiles ==
    /\ Step("copy_shared_files")
    /\ build' = copy_step(build, "copy_shared_files", SharedFiles)
    /\ UNCHANGED BuildVars

CopySpa01 ==
    /\ Step("copy_spa01")
    /\ build' = copy_step(build, "copy_spa01", Spa01Files)
    /\ UNCHANGED BuildVars

CopySpa02 ==
    /\ Step("copy_spa02")
    /\ build' = copy_step(build, "copy_spa02", Spa02Files)
    /\ UNCHANGED BuildVars

\* copy_spa03: the four files, then index.html once more to the root
CopySpa03 ==
    /\ Step("copy_spa03")
    /\ LET copied == copy(start_step(build, "copy_spa03"), Spa03Files, 1)
       IN build' = IF copied.pc = "exited" THEN copied
                   ELSE end_step([copied EXCEPT !.dist = @ \cup {"index.html"}],
                                 "SUCCESS")
    /\ UNCHANGED BuildVars

CreateHealthCheck ==
    /\ Step("create_health_check")
    /\ build' = write_step(build, "create_health_check", {"health.html"})
    /\ UNCHANGED BuildVars

Create404Page ==
    /\ Step("create_404_page")
    /\ build' = write_step(build, "create_404_page", {"404.html"})
    /\ UNCHANGED BuildVars

GenerateBuildInfo ==
    /\ Step("generate_build_info")
    /\ build' = write_step(build, "generate_build_info", {"build-info.txt"})
    /\ UNCHANGED BuildVars

\* the end of main: the summaries are written and the script ends
BuildCompleted ==
    /\ build.pc = "main"
    /\ Len(build.started) = Len(Steps)
    /\ build' = exit([build EXCEPT !.log =
                         Append(@, <<"BUILD COMPLETED",
                                     IF \A i \in 1..Len(build.STEP_RESULTS) :
                                            build.STEP_RESULTS[i] = "SUCCESS"
                                     THEN "SUCCESS" ELSE "FAILED">>)], 0)
    /\ UNCHANGED BuildVars

\* the script started on a source layout: any of the source directory and
\* its required directories may be missing, and at most one of the files
\* the copy steps name
BuildInit ==
    /\ state = [currentSpa |-> Null, isMobile |-> FALSE, sidebarOpen |-> FALSE,
                loading |-> FALSE, loadingTimeout |-> NoTimer,
                iframeLoadTimeout |-> NoTimer]
    /\ config = [loadingDelay |-> 1, iframeTimeout |-> 1]
    /\ build \in {[NoBuild EXCEPT !.pc = "main", !.srcDirs = dirs,
                                  !.srcFiles = SourceFiles \ absent] :
                      dirs \in SUBSET ({"src"} \cup Range(RequiredDirs)),
                      absent \in {{}} \cup {{f} : f \in SourceFiles}}
    /\ elements = [loadingIndicator |-> FALSE, errorDisplay |-> FALSE,
                   errorMessage |-> NoMessage, contentFrame |-> Null,
                   activeLinks |-> {}, title |-> <<MetaTitle>>,
                   fallback |-> FALSE]
    /\ innerWidth = 1
    /\ hash = ""
    /\ hashEvents = << >>
    /\ storage = EmptyStorage
    /\ timers = {}
    /\ frameLoading = FALSE
    /\ frameEvents = << >>
    /\ resize = NoResize
    /\ cycler = SPA02
    /\ pc = "init"
    /\ requests = 0
    /\ lastOp = Op("none", "", FALSE)
    /\ nav = [resolution |-> "idle", shown |-> FALSE, superseding |-> Null]

BuildNext ==
    \/ ValidateSource
    \/ CleanDist
    \/ CreateDistStructure
    \/ CopySharedFiles
    \/ CopySpa01
    \/ CopySpa02
    \/ CopySpa03
    \/ CreateHealthCheck
    \/ Create404Page
    \/ GenerateBuildInfo
    \/ BuildCompleted

BuildSpec == BuildInit /\ [][BuildNext]_vars

TypeOK ==
    /\ state.currentSpa \in AllIds \cup {Null}
    /\ state.loading \in BOOLEAN
    /\ hash \in Hashes
    /\ hashEvents \in Seq(Hashes)
    /\ requests \in Nat
    /\ Len(frameEvents) <= MaxQueue


(***************************************************************************)
(* Navigation phases, read off the history.                                *)
(***************************************************************************)
InFlight == nav.resolution = "navigating"

Resolutions == {"loaded", "notFound", "loadFailed", "timeout"}

Resolved == nav.resolution \in Resolutions

\* Loaded: a successful load was handled; Errored: the error panel is up
Loaded == nav.resolution = "loaded" /\ ~state.loading

Errored == elements.errorDisplay

IndicatorTimers == {t \in timers : t.kind = "indicator"}

TimeoutTimers == {t \in timers : t.kind = "timeout"}

\* C1: under fair timers every accepted navigation is eventually resolved:
\* a load signal is handled and loading ends, or the error panel is shown.
C1_EventuallyResolved ==
    InFlight ~> (Loaded \/ (Resolved /\ Errored))

\* the frame never signalled and the timeout timer showed the timeout error
C1_Witness ==
    /\ nav.resolution = "timeout"
    /\ lastOp.op = "onIframeTimeout"
    /\ elements.errorDisplay
    /\ elements.errorMessage = Messages.timeout
    /\ frameLoading

\* C2: state.loading is true exactly while a navigation is in flight; it is
\* false after a load, a load failure, a not-found detection and a timeout.
C2_LoadingIffInFlight ==
    pc = "running" /\ nav.resolution # "idle" => (state.loading <=> InFlight)


\* C3: loadSpa with an id that is no RouteTable entry shows the error panel
\* with the unknown-route message for that id and changes nothing else:
\* currentSpa, loading, the timers, lastVisitedSpa and the frame src stay.
C3_UnknownRouteOnlyShowsError ==
    [][(HashChange /\ hash \notin RouteIds /\ differsFromCurrent(hash, state))
        => /\ elements' = [elements EXCEPT
                              !.errorDisplay = TRUE,
                              !.errorMessage = <<Lit("Unknown application: "),
                                                 Lit(hash)>>]
           /\ state' = state
           /\ timers' = timers
           /\ storage' = storage
           /\ frameLoading' = frameLoading]_vars

\* the timer pair loadSpa schedules for the page now current
FreshPair(ts, st) ==
    /\ Cardinality(ts) = 2
    /\ \E t \in ts : /\ t.kind = "indicator"
                     /\ t.id = st.loadingTimeout
                     /\ t.remaining = config.loadingDelay
    /\ \E t \in ts : /\ t.kind = "timeout"
                     /\ t.id = st.iframeLoadTimeout
                     /\ t.remaining = config.iframeTimeout
    /\ \A t \in ts : t.spa = st.currentSpa /\ ~t.superseded

TimerFires == LoadingDelayElapsed \/ IframeTimeoutElapsed

\* C4: when a navigation to b replaces an unresolved navigation to a # b,
\* exactly the two timers scheduled for b are pending afterwards, and no
\* timer of a replaced navigation ever runs its callback.
C4_SupersedingCancelsTimers ==
    [][/\ (InFlight /\ state.currentSpa # Null
              /\ state'.currentSpa # state.currentSpa)
          => FreshPair(timers', state')
       /\ TimerFires => ~lastOp'.superseded]_vars

\* b has replaced the unresolved a and b's timers are the ones pending
C4_Witness ==
    /\ InFlight
    /\ nav.superseding \notin {Null, state.currentSpa}
    /\ FreshPair(timers, state)

\* C5: once the latest navigation is resolved, by load, load failure,
\* not-found detection or timeout, no timer is pending any more.
C5_NoOrphanedTimers == Resolved => timers = {}

\* C6: at most one loading-indicator timer and at most one timeout timer are
\* pending in every reachable state.
C6_AtMostOneTimerOfEachKind ==
    /\ Cardinality(IndicatorTimers) <= 1
    /\ Cardinality(TimeoutTimers) <= 1

\* a retry during an unresolved navigation: one pair pending, not two
C6_Witness ==
    /\ lastOp.op = "retryLoadSpa"
    /\ nav.superseding # Null
    /\ Cardinality(IndicatorTimers) = 1
    /\ Cardinality(TimeoutTimers) = 1

\* a nav-link click or a hash change that asks for the page x
RequestFor(x) == NavClick(x) \/ (HashChange /\ hash = x)

\* C7: a nav-link click or hash change for page x while Loaded on x is a
\* no-op: no timer, no persistence write, and currentSpa, loading, the panels
\* and the frame src unchanged.
C7_SamePageIsNoOp ==
    [][\A x \in RouteIds :
         (Loaded /\ ~Errored /\ state.currentSpa = x /\ RequestFor(x))
             => UNCHANGED <<state, elements, storage, timers, frameLoading,
                            frameEvents, hash, nav>>]_vars

\* the nav link of the loaded page was clicked and the shell is as before
C7_Witness ==
    /\ lastOp.op = "handleNavClick"
    /\ lastOp.arg = state.currentSpa
    /\ Loaded /\ ~Errored
    /\ timers = {}
    /\ requests < MaxRequests

\* C8 as stated: with the error panel showing, a hash change to the current
\* page id performs a fresh navigation: the panel is cleared and a new timer
\* pair is scheduled.
C8_ErroredSamePageRenavigates ==
    [][\A x \in RouteIds :
         (Errored /\ state.currentSpa = x /\ HashChange /\ hash = x)
             => ~elements'.errorDisplay /\ FreshPair(timers', state')]_vars

\* C8 amended: a request for the current page id is a no-op also while the
\* error panel is showing; the fresh navigation that clears the panel and
\* schedules a new timer pair is the retry action's.
C8_ErroredSamePageIsNoOp ==
    [][\A x \in RouteIds :
         /\ (Errored /\ state.currentSpa = x /\ RequestFor(x))
               => UNCHANGED <<state, elements, storage, timers, frameLoading,
                              frameEvents, hash, nav>>
         /\ (Errored /\ state.currentSpa = x /\ RetryClick)
               => ~elements'.errorDisplay /\ FreshPair(timers', state')]_vars

\* the error panel is up and the nav link of the current page was clicked
C8_Witness ==
    /\ lastOp.op = "handleNavClick"
    /\ lastOp.arg = state.currentSpa
    /\ Errored
    /\ Resolved

\* C9: when the load signal of the navigation in flight is handled, with
\* success, before its indicator timer has fired, the indicator is not shown
\* and the shell is Loaded: loading false, no error panel.
C9_FastLoadShowsNothing ==
    [][(/\ InFlight
        /\ \E t \in IndicatorTimers : t.id = state.loadingTimeout
        /\ frameEvents # << >>
        /\ ~Head(frameEvents).superseded
        /\ \E content \in {"ok", "opaque"} : IframeLoad(content))
        => /\ ~elements'.loadingIndicator
           /\ ~state'.loading
           /\ ~elements'.errorDisplay
           /\ IndicatorTimers' = {}]_vars

\* C10: when the timeout timer fires on a navigation still loading, the error
\* panel shows the timeout message and the indicator is hidden, and the
\* indicator stays hidden as long as no new navigation is accepted.
C10_TimeoutHidesIndicator ==
    [][/\ (IframeTimeoutElapsed /\ state.loading)
          => /\ elements'.errorDisplay
             /\ elements'.errorMessage = Messages.timeout
             /\ ~elements'.loadingIndicator
       /\ (nav.resolution = "timeout" /\ nav'.resolution = "timeout"
              /\ ~elements.loadingIndicator)
          => ~elements'.loadingIndicator]_vars

\* the timers of the shell's loader, as opposed to the resize listener's
LoaderTimers == IndicatorTimers \cup TimeoutTimers

\* C11: when the frame's error event is handled during a navigation, both
\* timers are cancelled, the loading indicator is hidden, the error panel
\* shows the load-failed message and currentSpa is unchanged.
C11_LoadFailureShowsError ==
    [][(InFlight /\ IframeError)
        => /\ LoaderTimers' = {}
           /\ ~elements'.loadingIndicator
           /\ elements'.errorDisplay
           /\ elements'.errorMessage = Messages.loadFailed
           /\ state'.currentSpa = state.currentSpa]_vars

\* the indicator was up when the error event was handled, and is hidden now
C11_Witness ==
    /\ lastOp.op = "handleIframeError"
    /\ ~lastOp.superseded
    /\ nav.resolution = "loadFailed"
    /\ nav.shown
    /\ ~elements.loadingIndicator
    /\ elements.errorMessage = Messages.loadFailed
    /\ timers = {}

\* C12: a load event whose inspected content reports not-found puts up the
\* error panel with the not-found message and the shell is not Loaded; a
\* load event whose content cannot be inspected is handled as a success.
C12_NotFoundIsErrorOpaqueIsSuccess ==
    [][/\ (InFlight /\ IframeLoad("notfound"))
          => /\ elements'.errorDisplay
             /\ elements'.errorMessage = Messages.notFound
             /\ ~Loaded'
             /\ state' = state
       /\ (InFlight /\ IframeLoad("opaque"))
          => /\ Loaded'
             /\ elements' = hideLoading(elements)
             /\ state' = [state EXCEPT !.loading = FALSE]]_vars

\* the not-found page came back: error panel up, the load still pending
C12_Witness ==
    /\ lastOp.op = "handleIframeLoad"
    /\ lastOp.arg = "notfound"
    /\ ~lastOp.superseded
    /\ nav.resolution = "notFound"
    /\ elements.errorDisplay
    /\ elements.errorMessage = Messages.notFound
    /\ state.loading

\* what a step shows when it ran loadSpa(h): for a route the page is current
\* and loading with a fresh timer pair, persisted, and the error panel is
\* cleared; for any other id only the unknown-route error is shown
NavigatedTo(h) ==
    IF RouteFound(h)
    THEN /\ state'.currentSpa = h
         /\ state'.loading
         /\ FreshPair(timers', state')
         /\ storageGet(storage', "lastVisitedSpa", Null, NAMESPACE) = h
         /\ ~elements'.errorDisplay
         /\ elements'.loadingIndicator = elements.loadingIndicator
    ELSE /\ elements' = showError(elements,
                                  template(Messages.unknown, [app |-> h]))
         /\ UNCHANGED <<state, timers, storage>>

\* what a step shows when it ran no loadSpa
NotNavigated ==
    /\ UNCHANGED <<elements, storage, timers, frameLoading, frameEvents, nav>>
    /\ state'.currentSpa = state.currentSpa
    /\ state'.loading = state.loading

\* C13 as stated: the hashchange event raised for the id h is handled as
\* navigateTo(h) when h differs from currentSpa and is ignored when it is
\* equal; a click on the nav link of another page queues one such event and
\* calls no loadSpa itself, so that it results in exactly one loadSpa call.
C13_HashEventNavigatesToItsId ==
    [][/\ HashChange
            => IF Head(hashEvents) # "" /\ Head(hashEvents) # state.currentSpa
               THEN NavigatedTo(Head(hashEvents))
               ELSE NotNavigated
       /\ \A x \in RouteIds :
            (NavClick(x) /\ x # state.currentSpa)
               => NotNavigated /\ hashEvents' = Append(hashEvents, x)]_vars

\* C13 amended: a hashchange event is handled as navigateTo(h) for the hash h
\* that is current when the handler runs, when h differs from currentSpa,
\* and is ignored otherwise; h is the id the event was raised for only if the
\* hash was not assigned again in between.  A nav-link click calls no loadSpa
\* itself: a click on another page assigns the hash, which queues an event
\* unless the hash already has that value, so the click results in exactly
\* one loadSpa call when its event is handled before the hash changes again.
C13_HashChangeNavigatesToCurrentHash ==
    [][/\ HashChange
            => IF hash # "" /\ hash # state.currentSpa
               THEN NavigatedTo(hash)
               ELSE NotNavigated
       /\ \A x \in RouteIds :
            NavClick(x)
               => /\ NotNavigated
                  /\ IF x # state.currentSpa
                     THEN /\ hash' = x
                          /\ hashEvents' = IF x # hash
                                           THEN Append(hashEvents, x)
                                           ELSE hashEvents
                     ELSE UNCHANGED <<hash, hashEvents>>
       /\ \A x \in RouteIds :
            (HashChange /\ Head(hashEvents) = x /\ hash = x
                        /\ x # state.currentSpa)
               => state'.currentSpa = x /\ InFlight']_vars

\* the hash was changed again before the first event was handled: that event
\* navigated to the later hash, whose own event is still queued
C13_Witness ==
    /\ lastOp.op = "handleHashChange"
    /\ lastOp.arg = hash
    /\ hashEvents = <<hash>>
    /\ state.currentSpa = hash
    /\ requests < MaxRequests
    /\ InFlight
    /\ FreshPair(timers, state)

\* C14: a retry with currentSpa set runs loadSpa(currentSpa) again, on a
\* loaded page as on an errored one: the error panel is cleared, loading is
\* true, the previous timers are gone and a fresh pair is pending; a retry
\* with currentSpa null changes nothing.
C14_RetryReloadsCurrent ==
    [][RetryClick
        => IF state.currentSpa # Null
           THEN /\ ~elements'.errorDisplay
                /\ state'.loading
                /\ state'.currentSpa = state.currentSpa
                /\ FreshPair(timers', state')
                /\ InFlight'
                /\ frameLoading'
           ELSE UNCHANGED <<state, elements, storage, timers, frameLoading,
                            frameEvents, hash, hashEvents, nav>>]_vars

\* the loaded page, with no error panel, was retried and is loading again
C14_Witness ==
    /\ lastOp.op = "retryLoadSpa"
    /\ lastOp.arg = state.currentSpa
    /\ lastOp.arg \in RouteIds
    /\ nav.superseding = Null
    /\ InFlight
    /\ state.loading
    /\ FreshPair(timers, state)

\* C15: when the load event of page p, an entry of the route table, is
\* handled with success, no timer stays pending, loading is false, the
\* indicator is hidden, the nav link of p and no other is active, and the
\* document title is p's title followed by the sidebar title.
C15_LoadedPageIsMarked ==
    [][\A p \in RouteIds :
         (/\ InFlight
          /\ state.currentSpa = p
          /\ \E content \in {"ok", "opaque"} : IframeLoad(content))
            => /\ LoaderTimers' = {}
               /\ ~state'.loading
               /\ ~elements'.loadingIndicator
               /\ elements'.activeLinks = {p}
               /\ elements'.title = <<Navigation[p].title, SidebarTitle>>]_vars

\* a second page was loaded after the first: only its link is active
C15_Witness ==
    /\ lastOp.op = "handleIframeLoad"
    /\ lastOp.arg = "ok"
    /\ Loaded
    /\ state.currentSpa = "spa02"
    /\ hash = "spa02"
    /\ requests < MaxRequests
    /\ elements.activeLinks = {"spa02"}
    /\ elements.title = <<"Multi-Language", SidebarTitle>>
    /\ timers = {}

\* C16: checkMobileState sets isMobile to (window.innerWidth <= breakpoint);
\* it closes the sidebar when the layout goes from mobile to desktop with the
\* sidebar open, and leaves sidebarOpen alone in every other case.
C16_CheckMobileState ==
    [][(ResizeSettled \/ InitializeApp)
        => /\ state'.isMobile = (innerWidth <= MobileBreakpoint)
           /\ state'.sidebarOpen =
                 IF state.isMobile /\ ~state'.isMobile /\ state.sidebarOpen
                 THEN FALSE
                 ELSE state.sidebarOpen]_vars

\* the window grew past the breakpoint with the sidebar open: it was closed
C16_Witness ==
    /\ lastOp.op = "checkMobileState>closeSidebar"
    /\ innerWidth > MobileBreakpoint
    /\ ~state.isMobile
    /\ ~state.sidebarOpen

\* C17: a keydown event closes the sidebar exactly when the key is Escape
\* and isMobile and sidebarOpen are both true; every other keydown event
\* changes nothing of the shell.
C17_EscapeClosesMobileSidebar ==
    [][\A key \in Keys :
         KeyDown(key)
            => /\ state' = IF key = "Escape" /\ state.isMobile
                                             /\ state.sidebarOpen
                           THEN [state EXCEPT !.sidebarOpen = FALSE]
                           ELSE state
               /\ UNCHANGED <<elements, hash, hashEvents, storage, timers,
                              frameLoading, frameEvents, innerWidth>>]_vars

\* Escape was pressed on the mobile layout with the sidebar open
C17_Witness ==
    /\ lastOp.op = "handleKeyDown>closeSidebar"
    /\ lastOp.arg = "Escape"
    /\ state.isMobile
    /\ ~state.sidebarOpen

\* C18: toggleSidebar flips sidebarOpen on either layout and two toggles in
\* a row restore it; openSidebar yields sidebarOpen true and closeSidebar
\* false; none of them changes isMobile or anything of the navigation.
C18_SidebarOperations ==
    [][/\ toggleSidebar(state) = [state EXCEPT !.sidebarOpen = ~state.sidebarOpen]
       /\ toggleSidebar(toggleSidebar(state)) = state
       /\ openSidebar(state) = [state EXCEPT !.sidebarOpen = TRUE]
       /\ closeSidebar(state) = [state EXCEPT !.sidebarOpen = FALSE]
       /\ ToggleSidebar
            => /\ state' = [state EXCEPT !.sidebarOpen = ~state.sidebarOpen]
               /\ UNCHANGED <<elements, hash, hashEvents, storage, timers,
                              frameLoading, frameEvents, nav>>
       /\ OverlayClick
            => /\ state' = [state EXCEPT !.sidebarOpen = FALSE]
               /\ UNCHANGED <<elements, hash, hashEvents, storage, timers,
                              frameLoading, frameEvents, nav>>]_vars

\* the sidebar was toggled open on the desktop layout
C18_Witness ==
    /\ lastOp.op = "toggleSidebar"
    /\ ~state.isMobile
    /\ state.sidebarOpen
    /\ innerWidth > MobileBreakpoint

\* C19: at most one debounce timer is pending; every resize event leaves one
\* timer with the full wait ahead, so a timer is due only when DebounceWait
\* has passed since the last event; checkMobileState is called only then,
\* once per burst, and by nothing else after startup.
C19_ResizeIsDebounced ==
    [][/\ Cardinality(ResizeTimers) <= 1
       /\ \A t \in ResizeTimers : t.remaining + resize.quiet = DebounceWait
       /\ (\E width \in Widths : Resize(width))
            => \E t \in ResizeTimers' : /\ ResizeTimers' = {t}
                                        /\ t.remaining = DebounceWait
       /\ ResizeSettled
            => /\ resize.quiet = DebounceWait
               /\ resize.calls = 0
               /\ ResizeTimers' = {}
       /\ (pc = "running" /\ state'.isMobile # state.isMobile)
            => ResizeSettled]_vars

\* two resize events less than the wait apart, then one call after the wait
C19_Witness ==
    /\ lastOp.op \in {"checkMobileState", "checkMobileState>closeSidebar"}
    /\ resize.burst = 2
    /\ resize.calls = 1
    /\ resize.quiet = DebounceWait
    /\ ResizeTimers = {}

LiveIntervals == cycler.intervals

\* C20: for every listed language code, the change handler run for that
\* code stops the cycling (isCycling false, no interval timer live), shows
\* the entry's greeting, gives it the rtl class exactly when the entry is
\* right-to-left, stores the code and the slider's speed, and sets
\* currentIndex to the entry's position.
C20_SelectLanguage ==
    [][\A i \in 1..Len(Languages) :
         SelectChange(Languages[i].code)
            => /\ ~cycler'.isCycling
               /\ LiveIntervals' = {}
               /\ cycler'.cycleInterval = NoTimer
               /\ cycler'.greeting = Languages[i].greeting
               /\ cycler'.rtl = Languages[i].rtl
               /\ cycler'.currentIndex = i - 1
               /\ storageGet(storage', "selectedLanguage", Null, NAMESPACE02)
                      = Languages[i].code
               /\ storageGet(storage', "cycleSpeed", Null, NAMESPACE02)
                      = cycler.slider
               /\ cycler'.slider = cycler.slider]_vars

\* the right-to-left entry was selected while another greeting was cycling
C20_Witness ==
    /\ lastOp.op = "change"
    /\ lastOp.arg = "ar"
    /\ cycler.greeting = "Marhaban Bialealam"
    /\ cycler.rtl
    /\ cycler.currentIndex = 2
    /\ ~cycler.isCycling
    /\ cycler.intervals = {}
    /\ cycler.slider = "2"
    /\ storage[finalKey("selectedLanguage", NAMESPACE02)] = stringify("ar")
    /\ storage[finalKey("cycleSpeed", NAMESPACE02)] = stringify("2")

\* the indices of the language list, counted from 0 as currentIndex is
ValidIndices == 0..(Len(Languages) - 1)

\* C21: the change handler run for a code that is not in the language list
\* leaves the displayed greeting and its text direction as they were, leaves
\* currentIndex a valid index of the list, and does not write the unknown
\* code to the Preference Store.
C21_UnknownCodeIsIgnored ==
    [][\A langCode \in UnknownCodes :
         SelectChange(langCode)
            => /\ cycler'.greeting = cycler.greeting
               /\ cycler'.rtl = cycler.rtl
               /\ cycler'.currentIndex \in ValidIndices
               /\ storageGet(storage', "selectedLanguage", Null, NAMESPACE02)
                      # langCode]_vars

\* C22: once initSPA02 has completed, under timer ticks, changes of the
\* select to listed codes and slider inputs, currentIndex is an index of the
\* list and the greeting shown, its right-to-left styling and the value of
\* the select are those of the entry at currentIndex.
C22_ShownEntryIsCurrentIndex ==
    cycler.pc = "running"
        => /\ cycler.currentIndex \in ValidIndices
           /\ cycler.greeting = Languages[cycler.currentIndex + 1].greeting
           /\ cycler.rtl = Languages[cycler.currentIndex + 1].rtl
           /\ cycler.select = Languages[cycler.currentIndex + 1].code

\* the timer, at the restored speed, has moved the page on to the
\* right-to-left entry
C22_Witness ==
    /\ cycler.pc = "running"
    /\ lastOp.op = "onInterval"
    /\ cycler.currentIndex = 2
    /\ cycler.select = "ar"
    /\ cycler.rtl
    /\ cycler.slider = "2"

\* C23: a tick of the interval timer, taken at a valid currentIndex, moves
\* currentIndex on by exactly one modulo the number of entries (from the
\* last index to 0), shows that entry's greeting and direction, gives the
\* select its code and stores the code.
C23_TickAdvancesByOne ==
    [][(IntervalElapsed /\ cycler.currentIndex \in ValidIndices)
          => LET index == IF cycler.currentIndex = Len(Languages) - 1
                          THEN 0 ELSE cycler.currentIndex + 1
             IN /\ cycler'.currentIndex = index
                /\ cycler'.greeting = Languages[index + 1].greeting
                /\ cycler'.rtl = Languages[index + 1].rtl
                /\ cycler'.select = Languages[index + 1].code
                /\ storageGet(storage', "selectedLanguage", Null,
                              NAMESPACE02) = Languages[index + 1].code]_vars

\* a tick taken at the last entry has wrapped round to the first
C23_Witness ==
    /\ lastOp.op = "onInterval"
    /\ cycler.currentIndex = 0
    /\ cycler.greeting = "Hello World"
    /\ ~cycler.rtl
    /\ cycler.select = "en"
    /\ storage[finalKey("selectedLanguage", NAMESPACE02)] = stringify("en")

\* C24: a slider input while the page is cycling leaves exactly one interval
\* timer, a new one whose period is the new value and which has its whole
\* period still to run, and stores the new value; and every tick comes a
\* full interval, as the slider then stands, after the timer was started,
\* restarted or last ticked.
C24_SpeedChangeRestartsTimer ==
    [][/\ \A value \in SpeedValues :
            (SliderInput(value) /\ cycler.isCycling)
               => /\ cycler'.isCycling
                  /\ \E t \in LiveIntervals' :
                        /\ LiveIntervals' = {t}
                        /\ t.id = cycler'.cycleInterval
                        /\ t.id \notin TimerIds(LiveIntervals)
                        /\ t.period = parseFloat(value)
                        /\ t.remaining = parseFloat(value)
                  /\ storageGet(storage', "cycleSpeed", Null, NAMESPACE02)
                         = value
       /\ IntervalElapsed => cycler.waited = parseFloat(cycler.slider)]_vars

\* the slider was moved to the slower speed while a timer was running: a
\* second timer has replaced it and has two units to run
C24_Witness ==
    /\ lastOp.op = "input"
    /\ lastOp.arg = "2"
    /\ cycler.isCycling
    /\ cycler.cycleInterval = 2
    /\ LiveIntervals = {[id |-> 2, remaining |-> 2, period |-> 2]}
    /\ storage[finalKey("cycleSpeed", NAMESPACE02)] = stringify("2")

\* C25: in every reachable state of the page at most one interval timer is
\* live, and once initSPA02 has completed isCycling is true exactly when a
\* timer is live, that timer being the one cycleInterval names.
C25_AtMostOneTimer ==
    /\ Cardinality(LiveIntervals) <= 1
    /\ cycler.pc = "running"
          => /\ cycler.isCycling <=> LiveIntervals # {}
             /\ TimerIds(LiveIntervals) = {cycler.cycleInterval} \ {NoTimer}

\* a manual selection has ended the cycle at the slower speed: the flag is
\* down and no timer is left
C25_Witness ==
    /\ cycler.pc = "running"
    /\ lastOp.op = "change"
    /\ ~cycler.isCycling
    /\ LiveIntervals = {}
    /\ cycler.cycleInterval = NoTimer
    /\ cycler.slider = "2"
    /\ cycler.status = StatusText.manual

\* C26: initSPA02 shows the stored language when its code is listed and the
\* first entry, at currentIndex 0, otherwise; it gives the slider the stored
\* speed when there is one; and it always ends cycling, with one live timer
\* at the slider's speed.
C26_InitRestoresPreferences ==
    [][InitSPA02
          => LET savedLang  == storageGet(storage, "selectedLanguage", Null,
                                          NAMESPACE02)
                 savedSpeed == storageGet(storage, "cycleSpeed", Null,
                                          NAMESPACE02)
                 index == IF savedLang \in LanguageCodes
                          THEN findIndex(savedLang) ELSE 0
             IN /\ cycler'.currentIndex = index
                /\ cycler'.select = Languages[index + 1].code
                /\ cycler'.greeting = Languages[index + 1].greeting
                /\ cycler'.rtl = Languages[index + 1].rtl
                /\ cycler'.slider = IF savedSpeed # Null THEN savedSpeed
                                    ELSE DefaultSpeed
                /\ cycler'.isCycling
                /\ cycler'.status = StatusText.cycling
                /\ \E t \in LiveIntervals' :
                      /\ LiveIntervals' = {t}
                      /\ t.id = cycler'.cycleInterval
                      /\ t.period = parseFloat(cycler'.slider)
                      /\ t.remaining = t.period]_vars

\* the page has started on the first entry because the stored code is not
\* listed, at the stored speed, and is cycling
C26_Witness ==
    /\ lastOp.op = "initSPA02"
    /\ storage[finalKey("selectedLanguage", NAMESPACE02)] = stringify("xx")
    /\ storage[finalKey("cycleSpeed", NAMESPACE02)] = stringify("2")
    /\ cycler.currentIndex = 0
    /\ cycler.select = "en"
    /\ cycler.greeting = "Hello World"
    /\ cycler.slider = "2"
    /\ cycler.isCycling
    /\ Cardinality(LiveIntervals) = 1

\* C27: once beforeunload has been dispatched no interval timer is live, and
\* so no tick runs, whatever state the page was in when it was dispatched:
\* cycling, manual, or with initSPA02 not completed or failed.
C27_UnloadCancelsTimer ==
    [][/\ BeforeUnload => LiveIntervals' = {}
       /\ cycler.unloading => (LiveIntervals' = {} /\ ~IntervalElapsed)]_vars

C29_StorageFailureIsTolerated ==
    [][storageFails(storage)
         => /\ \A key \in StoreKeys, value \in StoreValues,
                  namespace \in StoreNamespaces, d \in StoreDefaults :
                  /\ ~storageSetStatus(storage, key, value, namespace)
                  /\ storageSet(storage, key, value, namespace) = storage
                  /\ storageGet(storage, key, d, namespace) = d
            /\ storage' = storage
            /\ InitializeApp
                 => LET spaId == IF hash = "" THEN DefaultSpa ELSE hash
                    IN /\ hash' = spaId
                       /\ state'.currentSpa = spaId
                       /\ state'.loading
                       /\ FreshPair(timers', state')
            /\ (HashChange /\ differsFromCurrent(hash, state))
                 => /\ state'.currentSpa = hash
                    /\ state'.loading
                    /\ FreshPair(timers', state')
            /\ InitSPA02
                 => /\ cycler'.select = Languages[1].code
                    /\ cycler'.currentIndex = 0
                    /\ cycler'.greeting = Languages[1].greeting
                    /\ cycler'.slider = DefaultSpeed
                    /\ cycler'.isCycling
                    /\ Cardinality(LiveIntervals') = 1
            /\ \A i \in 1..Len(Languages) :
                  SelectChange(Languages[i].code)
                     => /\ cycler'.greeting = Languages[i].greeting
                        /\ cycler'.currentIndex = i - 1
                        /\ ~cycler'.isCycling
                        /\ LiveIntervals' = {}
            /\ \A value \in SpeedValues :
                  SliderInput(value)
                     => /\ cycler'.slider = value
                        /\ cycler'.isCycling = cycler.isCycling
                        /\ cycler.isCycling
                              => \E t \in LiveIntervals' :
                                    /\ LiveIntervals' = {t}
                                    /\ t.period = parseFloat(value)
            /\ IntervalElapsed
                 => /\ cycler'.currentIndex
                          = (cycler.currentIndex + 1) % Len(Languages)
                    /\ cycler'.select
                          = Languages[cycler'.currentIndex + 1].code]_vars

\* with localStorage throwing, the shell has navigated to the second page
\* and the cycler has taken a manual selection
C29_Witness ==
    /\ storage = BrokenStorage
    /\ state.currentSpa = "spa02"
    /\ hash = "spa02"
    /\ lastOp.op = "change"
    /\ lastOp.arg = "ar"
    /\ cycler.greeting = "Marhaban Bialealam"
    /\ ~cycler.isCycling

\* C30: when the metadata cannot be loaded at startup the page only shows
\* its fallback view: the failing initialization navigates nowhere, starts
\* no timer and writes nothing to the Preference Store, and from then on no
\* handler of the page runs, none having been registered. This is stated
\* for the shell (initializeApp) and for the cycler (initSPA02).
C30_FailedLoadIsFatal ==
    [][/\ InitializeAppFailed
            => /\ elements'.fallback
               /\ UNCHANGED <<state, hash, hashEvents, timers, storage>>
       /\ pc = "failed"
            => UNCHANGED <<state, elements, hash, hashEvents, timers,
                           storage, lastOp>>
       /\ InitSPA02Failed
            => /\ cycler'.errorState
               /\ LiveIntervals' = {}
               /\ cycler'.greeting = cycler.greeting
               /\ storage' = storage
       /\ cycler.pc = "failed"
            => /\ lastOp' = lastOp
               /\ cycler'.isCycling = cycler.isCycling
               /\ LiveIntervals' = {}
               /\ storage' = storage]_vars

\* the steps started so far are the first ones of main, in its order
StartedInOrder ==
    /\ Len(build.started) <= Len(Steps)
    /\ \A i \in 1..Len(build.started) : build.started[i] = Steps[i]

\* the script's own log holds an error message
ReasonLogged == \E i \in 1..Len(build.log) : build.log[i][1] = "ERROR"

\* C31: a run of the build script starts its steps in the fixed order; when
\* it has ended, either all ten steps ran, each ended with SUCCESS, and the
\* exit status is 0, or the exit status is not 0, every step before the
\* last one started ended with SUCCESS, no later step was started, and the
\* log holds the reason; and a run on a layout without the source directory
\* or one of the required directories ends with a status other than 0.
C31_AllStepsOrFirstFailure ==
    /\ StartedInOrder
    /\ build.pc = "exited"
          => /\ \/ /\ build.exit = 0
                   /\ build.started = Steps
                   /\ build.STEP_RESULTS = [i \in 1..Len(Steps) |-> "SUCCESS"]
                \/ /\ build.exit \notin {0, NoExit}
                   /\ build.started # << >>
                   /\ \A i \in 1..Len(build.STEP_RESULTS) :
                          i < Len(build.started)
                             <=> build.STEP_RESULTS[i] = "SUCCESS"
                   /\ ReasonLogged
             /\ ({"src"} \cup Range(RequiredDirs)) \ build.srcDirs # {}
                   => build.exit \notin {0, NoExit}

\* what the shell's stored preference reads as
LastVisitedSpa == storageGet(storage, "lastVisitedSpa", Null, NAMESPACE)

\* C32: in every reachable state of the shell currentSpa is null or the id
\* of a route table entry; once the running shell has written
\* lastVisitedSpa, which it does when it sets currentSpa, the stored value
\* equals currentSpa; and no step stores an id that is not in the route
\* table.
C32_CurrentPageIsRoute ==
    /\ [](state.currentSpa \in RouteIds \cup {Null})
    /\ [](state.currentSpa # Null => LastVisitedSpa = state.currentSpa)
    /\ [][storage' # storage => LastVisitedSpa' \in RouteIds]_vars

\* C33: in no reachable state of the shell are the error panel and the
\* loading indicator visible together.
C33_ErrorAndIndicatorExclusive ==
    ~(elements.errorDisplay /\ elements.loadingIndicator)

\* C34: when the shell has just handled a load signal whose content passed
\* the inspection, and so has set loading to false, the error panel is not
\* visible.
C34_LoadedHidesError ==
    (/\ lastOp.op = "handleIframeLoad"
     /\ lastOp.arg \in {"ok", "opaque"}
     /\ ~state.loading)
        => ~elements.errorDisplay

\* the frame event handled next was raised for a navigation that a later
\* loadSpa has replaced
StaleSignal == frameEvents # << >> /\ Head(frameEvents).superseded

\* C35: handling a load or error event that belongs to a replaced
\* navigation leaves the current navigation alone: its timers stay
\* pending, loading keeps its value, and the loading indicator and the
\* error panel stay as they are.
C35_StaleSignalIsIgnored ==
    [][(/\ StaleSignal
        /\ IframeError \/ \E content \in Contents : IframeLoad(content))
          => /\ timers' = timers
             /\ state'.loading = state.loading
             /\ elements'.loadingIndicator = elements.loadingIndicator
             /\ elements'.errorDisplay = elements.errorDisplay]_vars

\* the page the shell is to start on: the id in the URL hash, else the
\* stored lastVisitedSpa, else the default page
StartupTarget ==
    IF hash # "" THEN hash
    ELSE IF LastVisitedSpa \notin {Null, ""} THEN LastVisitedSpa
    ELSE DefaultSpa

\* the one navigation of the startup, to the page target
StartupNavigation(target) ==
    /\ hash' = target
    /\ state'.currentSpa = target
    /\ state'.loading
    /\ FreshPair(timers', state')
    /\ LastVisitedSpa' = target
    /\ elements'.contentFrame = Navigation[target].path

\* the hashchange event raised by the startup's own assignment of the hash
\* is handled, nothing else having changed the hash
OwnHashChange ==
    /\ HashChange
    /\ requests = MaxRequests
    /\ hashEvents = <<hash>>

\* C36 as stated: the startup navigates once, to a page of the route table,
\* which is the startup target; and handling the hashchange event of the
\* startup's own hash assignment runs no loadSpa: no timer is scheduled and
\* nothing is stored.
C36_StartupNavigatesOnce ==
    [][/\ InitializeApp
            => /\ StartupTarget \in RouteIds
               /\ StartupNavigation(StartupTarget)
       /\ OwnHashChange => NotNavigated]_vars

\* C36: when the startup target is a page of the route table the startup
\* navigates once, to that page, and handling the hashchange event of the
\* startup's own hash assignment then runs no loadSpa: no timer is
\* scheduled and nothing is stored. When the lookup of the startup target
\* finds nothing the startup navigates nowhere: it shows the unknown-route
\* error, schedules no timer and stores nothing.
C36_StartupNavigatesOnceToRoute ==
    [][/\ (InitializeApp /\ StartupTarget \in RouteIds)
            => StartupNavigation(StartupTarget)
       /\ (OwnHashChange /\ state.currentSpa \in RouteIds)
            => NotNavigated
       /\ (InitializeApp /\ ~RouteFound(StartupTarget))
            => /\ state'.currentSpa = Null
               /\ elements'.errorDisplay
               /\ elements'.contentFrame = Null
               /\ UNCHANGED <<timers, storage>>]_vars

\* the shell was opened without a hash and started on the stored page; the
\* event of its own hash assignment has been handled and ignored
C36_Witness ==
    /\ lastOp.op = "handleHashChange"
    /\ requests = MaxRequests
    /\ hashEvents = << >>
    /\ hash = "spa02"
    /\ state.currentSpa = "spa02"
    /\ LastVisitedSpa = "spa02"
    /\ InFlight
    /\ FreshPair(timers, state)

\* C37: when the shell starts with no hash and the stored lastVisitedSpa is
\* not an entry of the route table, it does not fall back to the default
\* page: the unknown-route error is shown, currentSpa stays null, the
\* content frame is given nothing to load and no timer is scheduled; and a
\* click on retry while currentSpa is null changes nothing.
C37_StaleSavedPageIsAnError ==
    [][/\ (/\ InitializeApp
           /\ hash = ""
           /\ LastVisitedSpa \notin RouteIds \cup {Null, ""})
            => /\ hash' = LastVisitedSpa
               /\ state'.currentSpa = Null
               /\ ~state'.loading
               /\ elements'.errorDisplay
               /\ elements'.errorMessage
                      = template(Messages.unknown, [app |-> LastVisitedSpa])
               /\ elements'.contentFrame = Null
               /\ ~frameLoading'
               /\ timers' = {}
       /\ (RetryClick /\ state.currentSpa = Null)
            => UNCHANGED <<state, elements, storage, timers, hash,
                           hashEvents, frameLoading, frameEvents>>]_vars

\* a manual selection: the change listener of the language select runs
ManualSelection ==
    \E langCode \in LanguageCodes \cup UnknownCodes : SelectChange(langCode)

\* auto-cycling has been stopped on the running page
CyclingStopped(cy) ==
    /\ cy.pc = "running"
    /\ ~cy.isCycling
    /\ cy.intervals = {}
    /\ cy.cycleInterval = NoTimer

\* C38: a manual selection stops auto-cycling, and once auto-cycling has
\* been stopped on the running page no step restarts it: after every later
\* step, slider inputs and further selections included, isCycling is false
\* and no interval timer is live, and the language shown (greeting,
\* direction, select value and index) changes only in steps that are manual
\* selections.
C38_StoppedCyclingStaysStopped ==
    [][/\ ManualSelection => CyclingStopped(cycler')
       /\ CyclingStopped(cycler)
            => /\ CyclingStopped(cycler')
               /\ ManualSelection
                  \/ /\ cycler'.greeting = cycler.greeting
                     /\ cycler'.rtl = cycler.rtl
                     /\ cycler'.select = cycler.select
                     /\ cycler'.currentIndex = cycler.currentIndex]_vars

\* a manual selection of Arabic stopped the cycling and the slider was then
\* moved: the page still shows Arabic, is not cycling and has no timer
C38_Witness ==
    /\ lastOp.op = "input"
    /\ CyclingStopped(cycler)
    /\ ~cycler.unloading
    /\ cycler.status = StatusText.manual
    /\ cycler.select = "ar"
    /\ cycler.greeting = find("ar").greeting
    /\ storage[finalKey("cycleSpeed", NAMESPACE02)] = stringify(lastOp.arg)

====
